---- MODULE Spec2Model ----
(***************************************************************************)
(* Model of the GADM import (db/init-db.py) and of the bottom-up geometry  *)
(* aggregation (db/precalculate-geometries.py).                            *)
(*                                                                         *)
(* The import reads one row per finest administrative unit, resolves its   *)
(* level columns to a chain of divisions, deduplicates the chains through  *)
(* a path-keyed dictionary and afterwards collapses single children that   *)
(* repeat their parent's name.  The aggregation groups the divisions that  *)
(* still miss a geometry by depth and merges them level by level.          *)
(*                                                                         *)
(* Conventions: None/NULL of a name, a path or a WKB is the empty string   *)
(* or "none"; NULL of an id is 0 (ids come from a SERIAL column and start  *)
(* at 1); NULL of a geometry is NullGeom.  A geometry is abstracted to the *)
(* set of source features it covers plus its validity.                     *)
(***************************************************************************)
EXTENDS Integers, Sequences, FiniteSets, TLC

(***************************************************************************)
(* Bounds of the model.                                                    *)
(***************************************************************************)
MaxRows == 3
MaxWorkers == 2
MaxInterrupts == 1

(***************************************************************************)
(* Program constants.                                                      *)
(***************************************************************************)
SUBCOUNTRY_LEVELS == <<"SOVEREIGN", "GOVERNEDBY">>

GEO_LEVELS ==
  <<"CONTINENT", "SUBCONT">> \o SUBCOUNTRY_LEVELS \o <<"COUNTRY", "REGION">>
    \o <<"NAME_0", "NAME_1", "NAME_2", "NAME_3", "NAME_4", "NAME_5">>

VARIABLES
  pc,                 \* position in the pipeline
  include_geometry,   \* GADMProcessor.include_geometry
  postprocess,        \* GADMProcessor.postprocess
  geometries,         \* GADMProcessor.geometries: uid -> WKB
  nrows,              \* rows fetched from the source cursor so far
  row,                \* the locals of the last process_row call
  resolved,           \* every (emitted names, division id) a row was resolved to
  built,              \* the table as process_records left it
  db,                 \* table administrative_divisions: id -> row
  nextId,             \* the SERIAL sequence of administrative_divisions.id
  existing_divisions, \* GADMProcessor.existing_divisions: path -> Division
  divisions,          \* the Division objects, addressed by their id
  single_children,    \* GADMProcessor.single_children
  updates,            \* merge_single_children: pending (new_parent_id, child_id)
  deletes,            \* merge_single_children: pending (old_parent_id,)
  workers,            \* precalculate_all_geometries: parameter workers
  levels,             \* the depth groups (depth, divisions), in fetch order
  level,              \* index in levels of the group being processed, 0 before the first
  conn,               \* per connection: chunk, position, status, open transaction
  writers,            \* per division: the connections whose UPDATE set its geometry
  committed,          \* the divisions whose aggregation has been committed
  imported,           \* the table as the import left it, before any aggregation
  interrupts,         \* how often precalculate-geometries.py was stopped before its end
  source,             \* the GeoPackage: "ok", or what it lacks
  triggers,           \* the geometry triggers of administrative_divisions
  calc                \* a function called on its own, and its locals

vars == <<pc, include_geometry, postprocess, geometries, nrows, row, resolved, built, db, nextId,
          existing_divisions, divisions, single_children, updates, deletes,
          workers, levels, level, conn, writers, committed, imported, interrupts,
          source, triggers, calc>>

importVars == <<include_geometry, postprocess, geometries, nrows, row, resolved, built, nextId,
                existing_divisions, divisions, single_children, updates, deletes>>

aggVars == <<workers, levels, level, conn, writers, committed>>

runVars == <<imported, interrupts>>

startVars == <<source, triggers>>

boxVars == <<calc>>

\* no function of generate_extent_boxes.py has been called
Idle == [fn |-> "idle"]

EmptyMap == [x \in {} |-> 0]

NullGeom == [pts |-> {}, q |-> "null"]

(***************************************************************************)
(* Source rows.  A row gives a name to each level ("" when the column is   *)
(* empty) and the feature's WKB ("none" when the feature has no geometry). *)
(***************************************************************************)
SourceRow(cont, sov, gov, country, region, n0, n1, n2, n3, wkb) ==
  [CONTINENT |-> cont, SUBCONT |-> "", SOVEREIGN |-> sov, GOVERNEDBY |-> gov,
   COUNTRY |-> country, REGION |-> region, NAME_0 |-> n0, NAME_1 |-> n1,
   NAME_2 |-> n2, NAME_3 |-> n3, NAME_4 |-> "", NAME_5 |-> "", WKB |-> wkb]

\* "_".join(division_path_parts)
RECURSIVE PathKey(_)
PathKey(parts) ==
  IF Len(parts) = 0 THEN ""
  ELSE IF Len(parts) = 1 THEN parts[1]
  ELSE PathKey(SubSeq(parts, 1, Len(parts) - 1)) \o "_" \o parts[Len(parts)]

LevelIndex(lvl) == CHOOSE i \in 1..Len(GEO_LEVELS) : GEO_LEVELS[i] = lvl

\* variant: the last non-empty level of SUBCOUNTRY_LEVELS is selected
SubcountryLevelLast(record) ==
  LET nonEmpty == {i \in 1..Len(SUBCOUNTRY_LEVELS) : record[SUBCOUNTRY_LEVELS[i]] # ""}
  IN IF nonEmpty = {} THEN ""
     ELSE SUBCOUNTRY_LEVELS[CHOOSE i \in nonEmpty : \A j \in nonEmpty : i >= j]

\* the first non-empty level of SUBCOUNTRY_LEVELS, "" when there is none
SubcountryLevel(record) ==
  LET nonEmpty == {i \in 1..Len(SUBCOUNTRY_LEVELS) : record[SUBCOUNTRY_LEVELS[i]] # ""}
  IN IF nonEmpty = {} THEN ""
     ELSE SUBCOUNTRY_LEVELS[CHOOSE i \in nonEmpty : \A j \in nonEmpty : i <= j]

\* GADMProcessor._has_next_level
has_next_level(record, current_level) ==
  \E j \in (LevelIndex(current_level) + 1)..Len(GEO_LEVELS) : record[GEO_LEVELS[j]] # ""

\* validate_multipolygon(ST_GeomFromWKB(wkb, 4326))
GeomFromWKB(uid, wkb) == [pts |-> {uid}, q |-> wkb]

\* self.geometries.get(uid)
GeometryOf(geoms, uid) == IF uid \in DOMAIN geoms THEN geoms[uid] ELSE "none"

\* variant: the lookup never finds the path
PathSeenNever(existing, path) == FALSE

\* path in self.existing_divisions
PathSeen(existing, path) == path \in DOMAIN existing

\* Division.__init__
NewDivision(name, id, parent_id, parent_path, parent_name, path) ==
  [name |-> name, id |-> id, parent_id |-> parent_id, parent_path |-> parent_path,
   parent_name |-> parent_name, path |-> path, children_num |-> 0, single_child |-> 0]

RemoveFirst(seq, x) ==
  IF \E i \in 1..Len(seq) : seq[i] = x
  THEN LET k == CHOOSE i \in 1..Len(seq) : seq[i] = x /\ \A j \in 1..(i - 1) : seq[j] # x
       IN SubSeq(seq, 1, k - 1) \o SubSeq(seq, k + 1, Len(seq))
  ELSE seq

\* variant: the INSERT leaves parent_id NULL
insert_division_orphan(name, parent_id, has_children, gadm_uid, geom, uid, incl) ==
  [name |-> name, parent_id |-> 0, has_children |-> has_children,
   gadm_uid |-> gadm_uid,
   geom |-> IF geom # "none" /\ incl THEN GeomFromWKB(uid, geom) ELSE NullGeom]

\* variant: the INSERT stores the row's UID on every level
insert_division_uid(name, parent_id, has_children, gadm_uid, geom, uid, incl) ==
  [name |-> name, parent_id |-> parent_id, has_children |-> has_children,
   gadm_uid |-> uid,
   geom |-> IF geom # "none" /\ incl THEN GeomFromWKB(uid, geom) ELSE NullGeom]

\* GADMProcessor._insert_division: the row written by the INSERT
insert_division(name, parent_id, has_children, gadm_uid, geom, uid, incl) ==
  [name |-> name, parent_id |-> parent_id, has_children |-> has_children,
   gadm_uid |-> gadm_uid,
   geom |-> IF geom # "none" /\ incl THEN GeomFromWKB(uid, geom) ELSE NullGeom]

\* variant: the second child under a parent leaves the first in the list
TrackSingleChildKeep(st, id, post) ==
  IF post /\ st.last_parent_path # "" /\ st.last_parent_path \in DOMAIN st.existing
  THEN LET p == st.existing[st.last_parent_path]
           n == st.objs[p].children_num + 1
       IN IF n = 1
          THEN [st EXCEPT !.objs = [@ EXCEPT ![p].children_num = n, ![p].single_child = id],
                          !.single = Append(@, id)]
          ELSE IF n = 2
          THEN [st EXCEPT !.objs = [@ EXCEPT ![p].children_num = n, ![p].single_child = 0]]
          ELSE [st EXCEPT !.objs = [@ EXCEPT ![p].children_num = n]]
  ELSE st

\* the single-child bookkeeping of process_row after a Division was created
TrackSingleChild(st, id, post) ==
  IF post /\ st.last_parent_path # "" /\ st.last_parent_path \in DOMAIN st.existing
  THEN LET p == st.existing[st.last_parent_path]
           n == st.objs[p].children_num + 1
       IN IF n = 1
          THEN [st EXCEPT !.objs = [@ EXCEPT ![p].children_num = n, ![p].single_child = id],
                          !.single = Append(@, id)]
          ELSE IF n = 2
          THEN [st EXCEPT !.objs = [@ EXCEPT ![p].children_num = n, ![p].single_child = 0],
                          !.single = RemoveFirst(@, st.objs[p].single_child)]
          ELSE [st EXCEPT !.objs = [@ EXCEPT ![p].children_num = n]]
  ELSE st

\* one iteration of the loop over GEO_LEVELS in process_row
ProcessLevel(st, record, lvl, incl, post, geoms) ==
  LET name == record[lvl]
      uid == record.UID
  IN IF name = "" THEN st
     ELSE IF (\E i \in 1..Len(SUBCOUNTRY_LEVELS) : SUBCOUNTRY_LEVELS[i] = lvl)
             /\ (lvl # SubcountryLevel(record) \/ name = record["COUNTRY"])
     THEN st
     ELSE IF lvl = "NAME_0" /\ name = record["COUNTRY"]
     THEN IF has_next_level(record, lvl) THEN st
          ELSE LET geom == IF incl THEN GeometryOf(geoms, uid) ELSE "none"
               IN IF st.last_parent_id # 0 /\ geom # "none"
                  THEN [st EXCEPT !.terminal = TRUE,
                                  !.db = [@ EXCEPT ![st.last_parent_id] =
                                            [@ EXCEPT !.gadm_uid = uid,
                                                      !.geom = GeomFromWKB(uid, geom),
                                                      !.has_children = FALSE]]]
                  ELSE [st EXCEPT !.terminal = TRUE]
     ELSE LET parts == Append(st.parts, name)
              path == PathKey(parts)
              has_children == has_next_level(record, lvl)
          IN IF ~PathSeen(st.existing, path)
             THEN LET id == st.nextId
                      inserted == insert_division(name, st.last_parent_id, has_children,
                                      IF has_children THEN 0 ELSE uid,
                                      IF has_children THEN "none" ELSE GeometryOf(geoms, uid),
                                      uid, incl)
                      division == NewDivision(name, id, st.last_parent_id,
                                      st.last_parent_path, st.last_parent_name, path)
                      st1 == [st EXCEPT !.db = @ @@ (id :> inserted),
                                        !.nextId = id + 1,
                                        !.objs = @ @@ (id :> division),
                                        !.existing = @ @@ (path :> id)]
                      st2 == TrackSingleChild(st1, id, post)
                  IN [st2 EXCEPT !.parts = parts,
                                 !.emitted = Append(@, [level |-> lvl, parts |-> parts, id |-> id,
                                                        created |-> TRUE, has_children |-> has_children]),
                                 !.last_parent_id = id,
                                 !.last_parent_path = path,
                                 !.last_parent_name = name]
             ELSE LET id == st.objs[st.existing[path]].id
                  IN [st EXCEPT !.parts = parts,
                                !.emitted = Append(@, [level |-> lvl, parts |-> parts, id |-> id,
                                                       created |-> FALSE, has_children |-> has_children]),
                                !.last_parent_id = id,
                                !.last_parent_path = path,
                                !.last_parent_name = name]

RECURSIVE ProcessLevels(_, _, _, _, _, _)
ProcessLevels(st, record, i, incl, post, geoms) ==
  IF i > Len(GEO_LEVELS) THEN st
  ELSE ProcessLevels(ProcessLevel(st, record, GEO_LEVELS[i], incl, post, geoms),
                     record, i + 1, incl, post, geoms)

NoRow == [record |-> EmptyMap, emitted |-> <<>>, terminal |-> FALSE, last_parent_id |-> 0]

Init ==
  /\ pc = "BUILD_TREE"
  /\ include_geometry \in BOOLEAN
  /\ postprocess \in BOOLEAN
  /\ geometries = EmptyMap
  /\ nrows = 0
  /\ row = NoRow
  /\ resolved = {}
  /\ built = EmptyMap
  /\ db = EmptyMap
  /\ nextId = 1
  /\ existing_divisions = EmptyMap
  /\ divisions = EmptyMap
  /\ single_children = <<>>
  /\ updates = <<>>
  /\ deletes = <<>>
  /\ workers = 0
  /\ levels = <<>>
  /\ level = 0
  /\ conn = EmptyMap
  /\ writers = EmptyMap
  /\ committed = {}
  /\ imported = EmptyMap
  /\ interrupts = 0
  /\ source = "ok"
  /\ triggers = IF include_geometry THEN "disabled" ELSE "enabled"
  /\ calc = Idle

(***************************************************************************)
(* process_records: one row of the source cursor goes through process_row. *)
(* The feature's geometry is in self.geometries only when geometries are   *)
(* included (load_geometries_into_memory).  UIDs number the rows.          *)
(***************************************************************************)
process_row(src) ==
  /\ pc = "BUILD_TREE"
  /\ nrows < MaxRows
  /\ LET uid == nrows + 1
         record == [k \in (DOMAIN src \ {"WKB"}) \cup {"UID"} |->
                      IF k = "UID" THEN uid ELSE src[k]]
         geoms == IF include_geometry /\ src.WKB # "none"
                  THEN geometries @@ (uid :> src.WKB) ELSE geometries
         st0 == [parts |-> <<>>, last_parent_id |-> 0, last_parent_path |-> "",
                 last_parent_name |-> "", db |-> db, nextId |-> nextId,
                 existing |-> existing_divisions, objs |-> divisions,
                 single |-> single_children, emitted |-> <<>>, terminal |-> FALSE]
         st == ProcessLevels(st0, record, 1, include_geometry, postprocess, geoms)
     IN /\ geometries' = geoms
        /\ nrows' = uid
        /\ row' = [record |-> record, emitted |-> st.emitted, terminal |-> st.terminal,
                   last_parent_id |-> st.last_parent_id]
        /\ resolved' = resolved \cup {<<st.emitted[i].parts, st.emitted[i].id>> :
                                         i \in 1..Len(st.emitted)}
        /\ db' = st.db
        /\ nextId' = st.nextId
        /\ existing_divisions' = st.existing
        /\ divisions' = st.objs
        /\ single_children' = st.single
  /\ UNCHANGED <<pc, include_geometry, postprocess, built, updates, deletes>>
  /\ UNCHANGED aggVars
  /\ UNCHANGED runVars
  /\ UNCHANGED startVars
  /\ UNCHANGED boxVars

\* process_records returns: the cursor is exhausted and the import is committed
finish_records ==
  /\ pc = "BUILD_TREE"
  /\ pc' = "COLLAPSE"
  /\ row' = NoRow
  /\ built' = db
  /\ UNCHANGED <<include_geometry, postprocess, geometries, nrows, resolved, db, nextId,
                 existing_divisions, divisions, single_children, updates, deletes>>
  /\ UNCHANGED aggVars
  /\ UNCHANGED runVars
  /\ triggers' = "enabled"
  /\ UNCHANGED source
  /\ UNCHANGED boxVars

(***************************************************************************)
(* merge_single_children.  The loop over self.single_children works on the *)
(* Division objects only and collects the statements; the two batches are  *)
(* executed afterwards, one statement at a time.                           *)
(***************************************************************************)
RemoveKey(f, k) == [x \in DOMAIN f \ {k} |-> f[x]]

\* variant: the re-parented child keeps its old parent_path
MergeStepStalePath(ms, sc) ==
  LET single_child == ms.objs[sc]
  IN IF single_child.name = single_child.parent_name
     THEN IF single_child.parent_path \notin DOMAIN ms.existing
          THEN ms
          ELSE LET old_parent == ms.objs[ms.existing[single_child.parent_path]]
                   has_new == /\ old_parent.parent_path # ""
                              /\ old_parent.parent_path \in DOMAIN ms.existing
                   new_id == IF has_new
                             THEN ms.objs[ms.existing[old_parent.parent_path]].id ELSE 0
               IN [ms EXCEPT !.updates = Append(@, <<new_id, single_child.id>>),
                             !.deletes = Append(@, <<old_parent.id>>),
                             !.objs = [@ EXCEPT ![sc].parent_id = new_id],
                             !.existing = RemoveKey(@, old_parent.path)]
     ELSE ms

\* one iteration of the loop over self.single_children
MergeStep(ms, sc) ==
  LET single_child == ms.objs[sc]
  IN IF single_child.name = single_child.parent_name
     THEN IF single_child.parent_path \notin DOMAIN ms.existing
          THEN ms
          ELSE LET old_parent == ms.objs[ms.existing[single_child.parent_path]]
                   has_new == /\ old_parent.parent_path # ""
                              /\ old_parent.parent_path \in DOMAIN ms.existing
                   new_id == IF has_new
                             THEN ms.objs[ms.existing[old_parent.parent_path]].id ELSE 0
                   new_path == IF has_new
                               THEN ms.objs[ms.existing[old_parent.parent_path]].path ELSE ""
               IN [ms EXCEPT !.updates = Append(@, <<new_id, single_child.id>>),
                             !.deletes = Append(@, <<old_parent.id>>),
                             !.objs = [@ EXCEPT ![sc].parent_id = new_id,
                                                ![sc].parent_path = new_path],
                             !.existing = RemoveKey(@, old_parent.path)]
     ELSE ms

RECURSIVE MergeLoopFirstMerge(_, _, _)
\* variant: the loop ends with the first candidate that is merged
MergeLoopFirstMerge(ms, list, i) ==
  IF i > Len(list) \/ ms.updates # <<>> THEN ms
  ELSE MergeLoopFirstMerge(MergeStep(ms, list[i]), list, i + 1)

RECURSIVE MergeLoop(_, _, _)
MergeLoop(ms, list, i) ==
  IF i > Len(list) THEN ms ELSE MergeLoop(MergeStep(ms, list[i]), list, i + 1)

\* variant: the DELETE batch is executed before the UPDATE batch
AfterBatchesDeletesFirst(upd, del) ==
  IF del # <<>> THEN "APPLY_DELETES" ELSE IF upd # <<>> THEN "APPLY_UPDATES" ELSE "COLLAPSED"

AfterBatches(upd, del) ==
  IF upd # <<>> THEN "APPLY_UPDATES" ELSE IF del # <<>> THEN "APPLY_DELETES" ELSE "COLLAPSED"

merge_single_children ==
  /\ pc = "COLLAPSE"
  /\ IF ~postprocess
     THEN /\ pc' = "COLLAPSED"
          /\ UNCHANGED <<existing_divisions, divisions, updates, deletes>>
     ELSE LET ms == MergeLoop([existing |-> existing_divisions, objs |-> divisions,
                               updates |-> <<>>, deletes |-> <<>>], single_children, 1)
          IN /\ existing_divisions' = ms.existing
             /\ divisions' = ms.objs
             /\ updates' = ms.updates
             /\ deletes' = ms.deletes
             /\ pc' = AfterBatches(ms.updates, ms.deletes)
  /\ UNCHANGED <<include_geometry, postprocess, geometries, nrows, row, resolved, built,
                 db, nextId, single_children>>
  /\ UNCHANGED aggVars
  /\ UNCHANGED runVars
  /\ UNCHANGED startVars
  /\ UNCHANGED boxVars

\* variant: the re-parenting UPDATE changes no row
apply_update_lost ==
  /\ pc = "APPLY_UPDATES"
  /\ db' = db
  /\ updates' = Tail(updates)
  /\ pc' = AfterBatches(Tail(updates), deletes)
  /\ UNCHANGED <<include_geometry, postprocess, geometries, nrows, row, resolved, built,
                 nextId, existing_divisions, divisions, single_children, deletes>>
  /\ UNCHANGED aggVars
  /\ UNCHANGED runVars
  /\ UNCHANGED startVars
  /\ UNCHANGED boxVars

\* UPDATE administrative_divisions SET parent_id = %s WHERE id = %s
apply_update ==
  /\ pc = "APPLY_UPDATES"
  /\ LET u == Head(updates)
     IN db' = [d \in DOMAIN db |-> IF d = u[2] THEN [db[d] EXCEPT !.parent_id = u[1]] ELSE db[d]]
  /\ updates' = Tail(updates)
  /\ pc' = AfterBatches(Tail(updates), deletes)
  /\ UNCHANGED <<include_geometry, postprocess, geometries, nrows, row, resolved, built,
                 nextId, existing_divisions, divisions, single_children, deletes>>
  /\ UNCHANGED aggVars
  /\ UNCHANGED runVars
  /\ UNCHANGED startVars
  /\ UNCHANGED boxVars

\* DELETE FROM administrative_divisions WHERE id = %s
apply_delete ==
  /\ pc = "APPLY_DELETES"
  /\ db' = RemoveKey(db, Head(deletes)[1])
  /\ deletes' = Tail(deletes)
  /\ pc' = AfterBatches(updates, Tail(deletes))
  /\ UNCHANGED <<include_geometry, postprocess, geometries, nrows, row, resolved, built,
                 nextId, existing_divisions, divisions, single_children, updates>>
  /\ UNCHANGED aggVars
  /\ UNCHANGED runVars
  /\ UNCHANGED startVars
  /\ UNCHANGED boxVars

\* main of init-db.py returns: the connection manager commits and the process,
\* with its dictionaries, ends
import_exit ==
  /\ pc = "COLLAPSED"
  /\ pc' = "IMPORTED"
  /\ geometries' = EmptyMap
  /\ existing_divisions' = EmptyMap
  /\ divisions' = EmptyMap
  /\ single_children' = <<>>
  /\ resolved' = {}
  /\ built' = EmptyMap
  /\ imported' = db
  /\ UNCHANGED <<include_geometry, postprocess, nrows, row, db, nextId, updates, deletes>>
  /\ UNCHANGED aggVars
  /\ UNCHANGED interrupts
  /\ UNCHANGED startVars
  /\ UNCHANGED boxVars

(***************************************************************************)
(* precalculate-geometries.py.  It runs on the committed table after the   *)
(* import.  Every connection reads the committed table overlaid with the   *)
(* writes of its own open transaction (READ COMMITTED).                    *)
(***************************************************************************)
Min(a, b) == IF a <= b THEN a ELSE b

\* variant: the depth is not incremented in the recursive step
RECURSIVE DivisionDepthFlat(_, _, _, _)
DivisionDepthFlat(table, frontier, depth, acc) ==
  IF frontier = {} THEN acc
  ELSE DivisionDepthFlat(table, {d \in DOMAIN table : table[d].parent_id \in frontier},
                         depth, acc @@ [d \in frontier |-> depth])

\* the recursive CTE division_depth: id -> depth, starting from the roots
RECURSIVE DivisionDepth(_, _, _, _)
DivisionDepth(table, frontier, depth, acc) ==
  IF frontier = {} THEN acc
  ELSE DivisionDepth(table, {d \in DOMAIN table : table[d].parent_id \in frontier},
                     depth + 1, acc @@ [d \in frontier |-> depth])

DepthOf(table) ==
  DivisionDepth(table, {d \in DOMAIN table : table[d].parent_id = 0}, 0, EmptyMap)

\* variant: the filter on has_children is missing
MissingGeometryAnyKind(table) ==
  {d \in DOMAIN DepthOf(table) : table[d].geom = NullGeom}

\* WHERE d.has_children = true AND d.geom IS NULL
MissingGeometry(table) ==
  {d \in DOMAIN DepthOf(table) : table[d].has_children /\ table[d].geom = NullGeom}

\* variant: ORDER BY dd.depth ASC
FetchOrdersAscending(table) ==
  LET S == MissingGeometry(table)
      n == Cardinality(S)
      depth == DepthOf(table)
  IN {r \in [1..n -> S] :
        /\ \A i, j \in 1..n : i # j => r[i] # r[j]
        /\ \A i, j \in 1..n : i < j => depth[r[i]] <= depth[r[j]]}

\* the rows of the SELECT in every order that ORDER BY dd.depth DESC allows
FetchOrders(table) ==
  LET S == MissingGeometry(table)
      n == Cardinality(S)
      depth == DepthOf(table)
  IN {r \in [1..n -> S] :
        /\ \A i, j \in 1..n : i # j => r[i] # r[j]
        /\ \A i, j \in 1..n : i < j => depth[r[i]] >= depth[r[j]]}

\* levels.setdefault(depth, []).append(...) over the fetched rows
RECURSIVE GroupByDepth(_, _, _, _)
GroupByDepth(result, depth, i, acc) ==
  IF i > Len(result) THEN acc
  ELSE LET d == result[i]
           n == Len(acc)
       IN IF n > 0 /\ \E k \in 1..n : acc[k].depth = depth[d]
          THEN LET k == CHOOSE k \in 1..n : acc[k].depth = depth[d]
               IN GroupByDepth(result, depth, i + 1,
                               [acc EXCEPT ![k].divisions = Append(@, d)])
          ELSE GroupByDepth(result, depth, i + 1,
                            Append(acc, [depth |-> depth[d], divisions |-> <<d>>]))

\* variant: the slice is one element too long
ChunkOverlap(divs, i, chunk_size) == SubSeq(divs, i + 1, Min(i + chunk_size + 1, Len(divs)))

\* divisions[i:i + chunk_size], i counted from 0
Chunk(divs, i, chunk_size) == SubSeq(divs, i + 1, Min(i + chunk_size, Len(divs)))

\* chunks = [divisions[i:i + chunk_size] for i in range(0, level_count, chunk_size)]
Chunks(divs, actual_workers) ==
  LET level_count == Len(divs)
      chunk_size == (level_count + actual_workers - 1) \div actual_workers
      n == (level_count + chunk_size - 1) \div chunk_size
  IN [k \in 1..n |-> Chunk(divs, (k - 1) * chunk_size, chunk_size)]

\* the table as seen by a connection with the open transaction tx
View(table, tx) ==
  [d \in DOMAIN table |-> IF d \in DOMAIN tx THEN [table[d] EXCEPT !.geom = tx[d]] ELSE table[d]]

\* SELECT geom ... WHERE parent_id = %s AND geom IS NOT NULL
ChildGeoms(view, d) ==
  {view[k].geom : k \in {k \in DOMAIN view : view[k].parent_id = d /\ view[k].geom # NullGeom}}

\* ST_CoverageUnion(geom): raises on an input that is not a valid coverage
CoverageUnion(gs) ==
  IF \E g \in gs : g.q # "ok" THEN [raised |-> TRUE, geom |-> NullGeom]
  ELSE IF gs = {} THEN [raised |-> FALSE, geom |-> NullGeom]
  ELSE [raised |-> FALSE, geom |-> [pts |-> UNION {g.pts : g \in gs}, q |-> "ok"]]

\* ST_Union(ST_MakeValid(geom)): raises on an input that cannot be repaired
RobustUnion(gs) ==
  IF \E g \in gs : g.q = "broken" THEN [raised |-> TRUE, geom |-> NullGeom]
  ELSE IF gs = {} THEN [raised |-> FALSE, geom |-> NullGeom]
  ELSE [raised |-> FALSE, geom |-> [pts |-> UNION {g.pts : g \in gs}, q |-> "ok"]]

\* the statements the cursor executes around the two UPDATEs: the first in a
\* savepoint that is released, or rolled back to before the second runs
Statements(fast_raised) ==
  <<"SAVEPOINT", "ST_CoverageUnion">>
    \o (IF fast_raised THEN <<"ROLLBACK TO SAVEPOINT", "ST_Union">>
        ELSE <<"RELEASE SAVEPOINT">>)

\* variant: the UPDATE only fills a geometry that is still NULL
MergeOutcomeOnlyNull(view, d) ==
  LET fast == CoverageUnion(ChildGeoms(view, d))
      robust == RobustUnion(ChildGeoms(view, d))
      res == IF fast.raised THEN robust ELSE fast
  IN [raised |-> res.raised,
      used_coverage |-> ~fast.raised,
      rowcount |-> IF ~res.raised /\ d \in DOMAIN view /\ res.geom # NullGeom
                      /\ view[d].geom = NullGeom THEN 1 ELSE 0,
      geom |-> res.geom,
      statements |-> Statements(fast.raised)]

\* the savepoint / try / except block: which union is stored, or the error
MergeOutcome(view, d) ==
  LET fast == CoverageUnion(ChildGeoms(view, d))
      robust == RobustUnion(ChildGeoms(view, d))
      res == IF fast.raised THEN robust ELSE fast
  IN [raised |-> res.raised,
      used_coverage |-> ~fast.raised,
      \* UPDATE ... WHERE id = %s AND merged.merged_geom IS NOT NULL
      rowcount |-> IF ~res.raised /\ d \in DOMAIN view /\ res.geom # NullGeom THEN 1 ELSE 0,
      geom |-> res.geom,
      statements |-> Statements(fast.raised)]

\* variant: no except branch, the error of ST_CoverageUnion leaves the function
calculate_merged_geometry_no_fallback(view, d) ==
  LET fast == CoverageUnion(ChildGeoms(view, d))
  IN [raised |-> fast.raised,
      used_coverage |-> ~fast.raised,
      rowcount |-> IF ~fast.raised /\ d \in DOMAIN view /\ fast.geom # NullGeom THEN 1 ELSE 0,
      geom |-> fast.geom,
      statements |-> <<"SAVEPOINT", "ST_CoverageUnion">>
                       \o (IF fast.raised THEN <<>> ELSE <<"RELEASE SAVEPOINT">>)]

calculate_merged_geometry(view, d) == MergeOutcome(view, d)

\* variant: an UPDATE that matches no row is an error
merge_step_raise_on_empty(view, d) ==
  LET out == MergeOutcome(view, d)
  IN [out EXCEPT !.raised = out.raised \/ out.rowcount = 0]

\* the body of the loop of _merge_worker up to the commit
merge_step(view, d) == MergeOutcome(view, d)

\* variant: the commit stores nothing
CommitDropped(table, tx) == table

\* the result of executing the statements of an open transaction
Commit(table, tx) == View(table, tx)

\* get_non_leaf_divisions_by_depth and the head of precalculate_all_geometries
get_non_leaf_divisions_by_depth ==
  /\ pc = "IMPORTED"
  /\ \E w \in 1..MaxWorkers, result \in FetchOrders(db) :
       /\ workers' = w
       /\ levels' = GroupByDepth(result, DepthOf(db), 1, <<>>)
       /\ pc' = IF Len(result) = 0 THEN "DONE" ELSE "AGGREGATE"
  /\ level' = 0
  /\ conn' = EmptyMap
  /\ writers' = [d \in DOMAIN db |-> {}]
  /\ committed' = {}
  /\ UNCHANGED db
  /\ UNCHANGED importVars
  /\ UNCHANGED runVars
  /\ UNCHANGED startVars
  /\ UNCHANGED boxVars

\* variant: the level is left as soon as the first worker has returned
LevelJoinedFirst(cn) ==
  DOMAIN cn = {} \/ \E c \in DOMAIN cn : cn[c].status \in {"done", "failed"}

\* the with-block of a level is left, or the sequential loop has committed
LevelJoined(cn) == \A c \in DOMAIN cn : cn[c].status \in {"done", "failed"}

\* variant: the exception of a worker is swallowed
LevelFailedNever(cn) == FALSE

\* an exception has left the loop over the levels
LevelFailed(cn) == \E c \in DOMAIN cn : cn[c].status = "failed"

NewConn(chunk) == [chunk |-> chunk, pos |-> 1, status |-> "running", tx |-> EmptyMap]

\* the next iteration of "for depth, divisions in levels.items()"
start_level ==
  /\ pc = "AGGREGATE"
  /\ LevelJoined(conn)
  /\ ~LevelFailed(conn)
  /\ level < Len(levels)
  /\ level' = level + 1
  /\ LET divs == levels[level + 1].divisions
         actual_workers == Min(workers, Len(divs))
     IN conn' = IF actual_workers = 1
                THEN (0 :> NewConn(divs))
                ELSE LET chunks == Chunks(divs, actual_workers)
                     IN [c \in DOMAIN chunks |-> NewConn(chunks[c])]
  /\ UNCHANGED <<pc, db, workers, levels, writers, committed>>
  /\ UNCHANGED importVars
  /\ UNCHANGED runVars
  /\ UNCHANGED startVars
  /\ UNCHANGED boxVars

\* one call of calculate_merged_geometry in the sequential loop (main connection)
sequential_merge ==
  /\ pc = "AGGREGATE"
  /\ 0 \in DOMAIN conn
  /\ conn[0].status = "running"
  /\ conn[0].pos <= Len(conn[0].chunk)
  /\ LET d == conn[0].chunk[conn[0].pos]
         out == calculate_merged_geometry(View(db, conn[0].tx), d)
     IN IF out.raised
        THEN /\ conn' = [conn EXCEPT ![0].status = "failed"]
             /\ UNCHANGED writers
        ELSE /\ conn' = [conn EXCEPT ![0].pos = @ + 1,
                                     ![0].tx = IF out.rowcount > 0
                                               THEN (d :> out.geom) @@ @ ELSE @]
             /\ writers' = IF out.rowcount > 0
                           THEN [writers EXCEPT ![d] = @ \cup {<<level, 0>>}] ELSE writers
  /\ UNCHANGED <<pc, db, workers, levels, level, committed>>
  /\ UNCHANGED importVars
  /\ UNCHANGED runVars
  /\ UNCHANGED startVars
  /\ UNCHANGED boxVars

\* conn.commit() after the sequential loop of a level
sequential_commit ==
  /\ pc = "AGGREGATE"
  /\ 0 \in DOMAIN conn
  /\ conn[0].status = "running"
  /\ conn[0].pos > Len(conn[0].chunk)
  /\ db' = Commit(db, conn[0].tx)
  /\ conn' = [conn EXCEPT ![0].status = "done", ![0].tx = EmptyMap]
  /\ committed' = committed \cup {conn[0].chunk[i] : i \in 1..Len(conn[0].chunk)}
  /\ UNCHANGED <<pc, workers, levels, level, writers>>
  /\ UNCHANGED importVars
  /\ UNCHANGED runVars
  /\ UNCHANGED startVars
  /\ UNCHANGED boxVars

\* _merge_worker: the merge of the next division of the chunk
worker_merge(c) ==
  /\ pc \in {"AGGREGATE", "INTERRUPTED"}
  /\ c \in DOMAIN conn /\ c # 0
  /\ conn[c].status = "running"
  /\ LET d == conn[c].chunk[conn[c].pos]
         out == merge_step(View(db, conn[c].tx), d)
     IN IF out.raised
        THEN /\ conn' = [conn EXCEPT ![c].status = "failed"]
             /\ UNCHANGED writers
        ELSE /\ conn' = [conn EXCEPT ![c].status = "merged",
                                     ![c].tx = IF out.rowcount > 0
                                               THEN (d :> out.geom) @@ @ ELSE @]
             /\ writers' = IF out.rowcount > 0
                           THEN [writers EXCEPT ![d] = @ \cup {<<level, c>>}] ELSE writers
  /\ UNCHANGED <<pc, db, workers, levels, level, committed>>
  /\ UNCHANGED importVars
  /\ UNCHANGED runVars
  /\ UNCHANGED startVars
  /\ UNCHANGED boxVars

\* _merge_worker: conn.commit() after a division; the worker returns after the last
worker_commit(c) ==
  /\ pc \in {"AGGREGATE", "INTERRUPTED"}
  /\ c \in DOMAIN conn /\ c # 0
  /\ conn[c].status = "merged"
  /\ db' = Commit(db, conn[c].tx)
  /\ conn' = [conn EXCEPT ![c].tx = EmptyMap,
                          ![c].pos = @ + 1,
                          ![c].status = IF conn[c].pos + 1 > Len(conn[c].chunk)
                                        THEN "done" ELSE "running"]
  /\ committed' = committed \cup {conn[c].chunk[conn[c].pos]}
  /\ UNCHANGED <<pc, workers, levels, level, writers>>
  /\ UNCHANGED importVars
  /\ UNCHANGED runVars
  /\ UNCHANGED startVars
  /\ UNCHANGED boxVars

\* the loop over the levels ends: all levels done, or an error left the loop
finish_run ==
  /\ pc = "AGGREGATE"
  /\ level > 0
  /\ LevelJoined(conn)
  /\ IF LevelFailed(conn)
     THEN pc' = "FAILED"
     ELSE /\ level = Len(levels)
          /\ pc' = "DONE"
  /\ UNCHANGED <<db, workers, levels, level, conn, writers, committed>>
  /\ UNCHANGED importVars
  /\ UNCHANGED runVars
  /\ UNCHANGED startVars
  /\ UNCHANGED boxVars

(***************************************************************************)
(* The rows the model draws.  Shapes lists the values of NAME_0 .. NAME_3  *)
(* of rows with COUNTRY = "g" and nothing above it; every shape comes with *)
(* a valid geometry, some also without geometry or with one that is not a  *)
(* valid coverage.  Three more rows have levels above COUNTRY: a continent *)
(* that repeats the country's name, and the two sub-country levels, once   *)
(* with a NAME_0 that repeats the country above deeper levels.             *)
(***************************************************************************)
Shapes ==
  { <<"", "", "", "">>, <<"g", "", "", "">>,
    <<"", "b", "", "">>, <<"", "b", "b", "">>, <<"", "b", "b", "b">>,
    <<"", "c", "", "">>, <<"", "c", "b", "">> }

Rows ==
  {SourceRow("", "", "", "g", "", s[1], s[2], s[3], s[4], "ok") : s \in Shapes}
  \cup {SourceRow("", "", "", "g", "", "g", "", "", "", "none"),
        SourceRow("", "", "", "g", "", "", "b", "", "", "none"),
        SourceRow("", "", "", "g", "", "", "c", "", "", "malformed"),
        SourceRow("g", "", "", "g", "", "", "", "", "", "ok"),
        SourceRow("", "s", "t", "g", "", "", "", "", "", "ok"),
        SourceRow("", "g", "t", "g", "", "g", "b", "", "", "ok")}

Next ==
  \/ \E src \in Rows : process_row(src)
  \/ finish_records
  \/ merge_single_children
  \/ apply_update
  \/ apply_delete
  \/ import_exit
  \/ get_non_leaf_divisions_by_depth
  \/ start_level
  \/ sequential_merge
  \/ sequential_commit
  \/ \E c \in 1..MaxWorkers : worker_merge(c)
  \/ \E c \in 1..MaxWorkers : worker_commit(c)
  \/ finish_run

Spec == Init /\ [][Next]_vars

(***************************************************************************)
(* Stopping precalculate-geometries.py before its end.  SIGINT runs        *)
(* signal_handler in the main thread: it cancels the query of the main     *)
(* connection and raises SystemExit.  Leaving the with-block of a parallel *)
(* level waits for the worker threads, which go on with their chunks on    *)
(* their own connections; main's finally then closes the main connection   *)
(* and its open transaction is rolled back.  A process that is killed      *)
(* drops every connection at once.  Afterwards the script can be started   *)
(* again on the committed table.                                           *)
(***************************************************************************)
\* variant: a dropped transaction leaves its rows half written
RollbackTorn(table, tx) ==
  [d \in DOMAIN table |->
     IF d \in DOMAIN tx THEN [table[d] EXCEPT !.geom = [pts |-> {}, q |-> "ok"]] ELSE table[d]]

\* a connection with autocommit off is closed or lost: its open transaction is discarded
Rollback(table, tx) == table

RECURSIVE RollbackAll(_, _, _)
RollbackAll(table, cn, S) ==
  IF S = {} THEN table
  ELSE LET c == CHOOSE c \in S : TRUE
       IN RollbackAll(Rollback(table, cn[c].tx), cn, S \ {c})

\* signal_handler: _conn.cancel() and sys.exit(1) in the main thread
signal_handler ==
  /\ pc = "AGGREGATE"
  /\ interrupts < MaxInterrupts
  /\ pc' = "INTERRUPTED"
  /\ interrupts' = interrupts + 1
  /\ db' = RollbackAll(db, conn, DOMAIN conn \cap {0})
  /\ conn' = [c \in DOMAIN conn |->
                IF c = 0 THEN [conn[c] EXCEPT !.status = "cancelled", !.tx = EmptyMap]
                ELSE conn[c]]
  /\ UNCHANGED <<workers, levels, level, writers, committed, imported>>
  /\ UNCHANGED importVars
  /\ UNCHANGED startVars
  /\ UNCHANGED boxVars

\* the interrupted process ends once the executor has joined its threads
process_exit ==
  /\ pc = "INTERRUPTED"
  /\ \A c \in DOMAIN conn : c # 0 => conn[c].status \in {"done", "failed"}
  /\ pc' = "IMPORTED"
  /\ workers' = 0
  /\ levels' = <<>>
  /\ level' = 0
  /\ conn' = EmptyMap
  /\ writers' = EmptyMap
  /\ committed' = {}
  /\ UNCHANGED <<db, imported, interrupts>>
  /\ UNCHANGED importVars
  /\ UNCHANGED startVars
  /\ UNCHANGED boxVars

\* the process is killed: every connection is lost with its open transaction
process_killed ==
  /\ pc \in {"AGGREGATE", "INTERRUPTED"}
  /\ pc = "AGGREGATE" => interrupts < MaxInterrupts
  /\ pc' = "IMPORTED"
  /\ interrupts' = IF pc = "AGGREGATE" THEN interrupts + 1 ELSE interrupts
  /\ db' = RollbackAll(db, conn, DOMAIN conn)
  /\ workers' = 0
  /\ levels' = <<>>
  /\ level' = 0
  /\ conn' = EmptyMap
  /\ writers' = EmptyMap
  /\ committed' = {}
  /\ UNCHANGED imported
  /\ UNCHANGED importVars
  /\ UNCHANGED startVars
  /\ UNCHANGED boxVars

\* the loop over the levels run to its end without a break, one division after
\* the other on one connection; it stops at the first merge that raises
RECURSIVE RunDivisions(_, _, _)
RunDivisions(table, result, i) ==
  IF i > Len(result) THEN [table |-> table, failed |-> FALSE]
  ELSE LET out == calculate_merged_geometry(table, result[i])
       IN IF out.raised THEN [table |-> table, failed |-> TRUE]
          ELSE RunDivisions(IF out.rowcount > 0
                            THEN Commit(table, (result[i] :> out.geom)) ELSE table,
                            result, i + 1)

\* precalculate_all_geometries on the table, never stopped
RunToCompletion(table) ==
  RunDivisions(table, CHOOSE r \in FetchOrders(table) : TRUE, 1)

\* the rows of the runs with interruptions and failing merges: trees with up to
\* three inner divisions on one level, and a geometry that no union accepts
ResumeRows ==
  {SourceRow("", "", "", "g", "", "", "b", "b", "", "ok"),
   SourceRow("", "", "", "g", "", "", "c", "b", "", "ok"),
   SourceRow("", "", "", "g", "", "", "c", "b", "", "broken"),
   SourceRow("", "", "", "g", "", "", "d", "b", "", "ok"),
   SourceRow("", "", "", "g", "", "", "c", "", "", "malformed"),
   SourceRow("", "", "", "g", "", "", "b", "", "", "none"),
   SourceRow("", "", "", "g", "", "g", "", "", "", "ok")}

NextResume ==
  \/ \E src \in ResumeRows : process_row(src)
  \/ finish_records
  \/ merge_single_children
  \/ apply_update
  \/ apply_delete
  \/ import_exit
  \/ get_non_leaf_divisions_by_depth
  \/ start_level
  \/ sequential_merge
  \/ sequential_commit
  \/ \E c \in 1..MaxWorkers : worker_merge(c)
  \/ \E c \in 1..MaxWorkers : worker_commit(c)
  \/ finish_run
  \/ signal_handler
  \/ process_exit
  \/ process_killed

SpecResume == Init /\ [][NextResume]_vars

(***************************************************************************)
(* The aggregator applied to an arbitrary division of an imported table:   *)
(* calculate_merged_geometry on the main connection, and _merge_worker     *)
(* with a one-element chunk.  Both commit when the merge did not raise.    *)
(***************************************************************************)
invoke_aggregator(d) ==
  /\ pc = "IMPORTED"
  /\ d \in DOMAIN db
  /\ LET out == calculate_merged_geometry(db, d)
     IN /\ db' = IF out.rowcount > 0 THEN Commit(db, (d :> out.geom)) ELSE db
        /\ conn' = (0 :> [NewConn(<<d>>) EXCEPT
                            !.pos = IF out.raised THEN 1 ELSE 2,
                            !.status = IF out.raised THEN "failed" ELSE "done"])
  /\ UNCHANGED <<pc, workers, levels, level, writers, committed>>
  /\ UNCHANGED importVars
  /\ UNCHANGED runVars
  /\ UNCHANGED startVars
  /\ UNCHANGED boxVars

invoke_merge_worker(d) ==
  /\ pc = "IMPORTED"
  /\ d \in DOMAIN db
  /\ LET out == merge_step(db, d)
     IN /\ db' = IF out.rowcount > 0 THEN Commit(db, (d :> out.geom)) ELSE db
        /\ conn' = (1 :> [NewConn(<<d>>) EXCEPT
                            !.pos = IF out.raised THEN 1 ELSE 2,
                            !.status = IF out.raised THEN "failed" ELSE "done"])
  /\ UNCHANGED <<pc, workers, levels, level, writers, committed>>
  /\ UNCHANGED importVars
  /\ UNCHANGED runVars
  /\ UNCHANGED startVars
  /\ UNCHANGED boxVars

\* the rows of the tables the aggregator is invoked on
InvokeRows ==
  {SourceRow("", "", "", "g", "", s[1], s[2], s[3], s[4], "ok") :
     s \in {<<"", "", "", "">>, <<"g", "", "", "">>, <<"", "b", "", "">>,
            <<"", "b", "b", "">>, <<"", "c", "b", "">>}}
  \cup {SourceRow("", "", "", "g", "", "", "c", "", "", "malformed"),
        SourceRow("", "", "", "g", "", "", "b", "", "", "none")}

NextInvoke ==
  \/ \E src \in InvokeRows : process_row(src)
  \/ finish_records
  \/ merge_single_children
  \/ apply_update
  \/ apply_delete
  \/ import_exit
  \/ \E d \in 1..(nextId - 1) : invoke_aggregator(d)
  \/ \E d \in 1..(nextId - 1) : invoke_merge_worker(d)

SpecInvoke == Init /\ [][NextInvoke]_vars

(***************************************************************************)
(* The start of init-db.py, from the construction of the GADMProcessor to  *)
(* the loop over the rows.  The GeoPackage can lack its data table or one  *)
(* of the level columns the SELECT of process_records names.               *)
(***************************************************************************)
InitStart ==
  /\ pc = "INIT"
  /\ include_geometry \in BOOLEAN
  /\ postprocess \in BOOLEAN
  /\ geometries = EmptyMap
  /\ nrows = 0
  /\ row = NoRow
  /\ resolved = {}
  /\ built = EmptyMap
  /\ db = EmptyMap
  /\ nextId = 1
  /\ existing_divisions = EmptyMap
  /\ divisions = EmptyMap
  /\ single_children = <<>>
  /\ updates = <<>>
  /\ deletes = <<>>
  /\ workers = 0
  /\ levels = <<>>
  /\ level = 0
  /\ conn = EmptyMap
  /\ writers = EmptyMap
  /\ committed = {}
  /\ imported = EmptyMap
  /\ interrupts = 0
  /\ source \in {"ok", "no_table", "no_column"}
  /\ triggers = "enabled"
  /\ calc = Idle

\* GADMProcessor.__init__: _get_gadm_table_name exits when there is no data table
get_gadm_table_name ==
  /\ pc = "INIT"
  /\ pc' = IF source = "no_table" THEN "ABORTED" ELSE "READY"
  /\ UNCHANGED <<db, source, triggers>>
  /\ UNCHANGED boxVars
  /\ UNCHANGED importVars
  /\ UNCHANGED aggVars
  /\ UNCHANGED runVars

\* process_records up to its loop: the triggers are disabled and that is
\* committed, then the SELECT of the level columns is executed
begin_records ==
  /\ pc = "READY"
  /\ triggers' = IF include_geometry THEN "disabled" ELSE triggers
  /\ pc' = IF source = "no_column" THEN "ABORTED" ELSE "BUILD_TREE"
  /\ UNCHANGED <<db, source>>
  /\ UNCHANGED boxVars
  /\ UNCHANGED importVars
  /\ UNCHANGED aggVars
  /\ UNCHANGED runVars

NextStart ==
  \/ get_gadm_table_name
  \/ begin_records
  \/ \E src \in InvokeRows : process_row(src)
  \/ finish_records
  \/ merge_single_children
  \/ apply_update
  \/ apply_delete
  \/ import_exit

SpecStart == InitStart /\ [][NextStart]_vars

(***************************************************************************)
(* process_records over rows that fill the sub-country levels, CONTINENT   *)
(* and REGION in every combination the rules of _process_row tell apart.   *)
(***************************************************************************)
LevelRows ==
  {SourceRow("", "", "", "g", "", "", "", "", "", "ok"),
   SourceRow("", "", "", "g", "", "g", "", "", "", "ok"),
   SourceRow("", "", "", "g", "", "g", "b", "", "", "ok"),
   SourceRow("", "", "", "g", "", "h", "b", "", "", "ok"),
   SourceRow("", "", "", "g", "", "", "b", "b", "", "ok"),
   SourceRow("", "s", "t", "g", "", "", "", "", "", "ok"),
   SourceRow("", "", "t", "g", "", "", "b", "", "", "ok"),
   SourceRow("", "g", "", "g", "", "", "", "", "", "ok"),
   SourceRow("", "", "g", "g", "", "g", "", "", "", "ok"),
   SourceRow("", "g", "t", "g", "", "", "", "", "", "ok"),
   SourceRow("x", "", "", "g", "r", "", "b", "", "", "ok")}

NextLevels ==
  \/ \E src \in LevelRows : process_row(src)
  \/ finish_records

SpecLevels == Init /\ [][NextLevels]_vars

(***************************************************************************)
(* init-db.py over rows that build several chains of equally named only    *)
(* children: side by side, one below the other, and under different roots. *)
(***************************************************************************)
CollapseRows ==
  {SourceRow("", "", "", "g", "", "", "b", "b", "", "ok"),
   SourceRow("", "", "", "g", "", "", "c", "c", "", "ok"),
   SourceRow("", "", "", "g", "", "", "b", "b", "b", "ok"),
   SourceRow("", "", "", "g", "", "", "c", "b", "", "ok"),
   SourceRow("g", "", "", "g", "", "", "b", "b", "", "ok"),
   SourceRow("", "", "", "h", "", "", "h", "", "", "ok")}

NextCollapse ==
  \/ \E src \in CollapseRows : process_row(src)
  \/ finish_records
  \/ merge_single_children
  \/ apply_update
  \/ apply_delete

SpecCollapse == Init /\ [][NextCollapse]_vars

(***************************************************************************)
(* init-db.py over rows whose names hold the character "_", the separator  *)
(* of the path key.                                                        *)
(***************************************************************************)
NameRows ==
  {SourceRow("", "", "", "a_b", "", "", "", "", "", "ok"),
   SourceRow("", "", "", "a", "", "", "b", "", "", "ok"),
   SourceRow("", "", "", "a", "", "", "b", "a_b", "", "ok"),
   SourceRow("", "", "", "a", "", "", "b", "b", "", "ok"),
   SourceRow("", "", "", "a_b", "", "", "a_b", "", "", "ok"),
   SourceRow("", "", "", "a", "", "", "b_b", "", "", "ok")}

NextNames ==
  \/ \E src \in NameRows : process_row(src)
  \/ finish_records
  \/ merge_single_children
  \/ apply_update
  \/ apply_delete

SpecNames == Init /\ [][NextNames]_vars

(***************************************************************************)
(* Import and aggregation run to their end by a scheduler that lets the    *)
(* main thread and every worker thread go on: each of them is sequential   *)
(* code without a wait other than the join of the level, so a step that    *)
(* can be taken is taken.  The rows make two levels of inner divisions,    *)
(* the robust union, a division without geometry and a failing merge.      *)
(***************************************************************************)
AggRows ==
  {SourceRow("", "", "", "g", "", "", "b", "d", "", "ok"),
   SourceRow("", "", "", "g", "", "", "c", "d", "", "ok"),
   SourceRow("", "", "", "g", "", "", "c", "", "", "malformed"),
   SourceRow("", "", "", "g", "", "", "b", "", "", "none"),
   SourceRow("", "", "", "g", "", "", "c", "e", "", "broken")}

NextAgg ==
  \/ \E src \in AggRows : process_row(src)
  \/ finish_records
  \/ merge_single_children
  \/ import_exit
  \/ get_non_leaf_divisions_by_depth
  \/ start_level
  \/ sequential_merge
  \/ sequential_commit
  \/ \E c \in 1..MaxWorkers : worker_merge(c)
  \/ \E c \in 1..MaxWorkers : worker_commit(c)
  \/ finish_run

SpecAgg == Init /\ [][NextAgg]_vars

\* the steps of the loop over the levels in precalculate_all_geometries
LevelSteps ==
  \/ start_level
  \/ sequential_merge
  \/ sequential_commit
  \/ \E c \in 1..MaxWorkers : worker_merge(c)
  \/ \E c \in 1..MaxWorkers : worker_commit(c)
  \/ finish_run

SpecAggFair == SpecAgg /\ WF_vars(LevelSteps)

(***************************************************************************)
(* process_records called on its own on a list of records, and again on    *)
(* the same records in another order.  A record keeps its UID and its      *)
(* geometry whatever its place in the list.                                *)
(***************************************************************************)
MaxRecords == 2

OrderRows ==
  {SourceRow("", "", "", "g", "", "", "", "", "", "ok"),
   SourceRow("", "", "", "g", "", "", "b", "", "", "ok"),
   SourceRow("", "", "", "g", "", "", "c", "", "", "ok"),
   SourceRow("", "", "", "g", "", "", "b", "b", "", "ok"),
   SourceRow("", "", "", "g", "", "g", "", "", "", "ok"),
   SourceRow("", "", "", "h", "", "", "b", "", "", "none")}

\* load_geometries_into_memory: the WKB of every feature by UID
load_geometries_into_memory(records, incl) ==
  LET with == {i \in 1..Len(records) : incl /\ records[i].WKB # "none"}
  IN [u \in {records[i].UID : i \in with} |->
        (CHOOSE i \in with : records[i].UID = u)]

RECURSIVE process_records_loop(_, _, _, _, _, _)
\* for row in self.sqlite_cursor: self._process_row(...)
process_records_loop(st, records, i, incl, post, geoms) ==
  IF i > Len(records) THEN st
  ELSE LET record == [k \in DOMAIN records[i] \ {"WKB"} |-> records[i][k]]
           st0 == [st EXCEPT !.parts = <<>>, !.last_parent_id = 0, !.last_parent_path = "",
                             !.last_parent_name = "", !.emitted = <<>>, !.terminal = FALSE]
       IN process_records_loop(ProcessLevels(st0, record, 1, incl, post, geoms),
                               records, i + 1, incl, post, geoms)

\* the table after process_records on the records
process_records(records, incl, post) ==
  LET wkb == load_geometries_into_memory(records, incl)
      geoms == [u \in DOMAIN wkb |-> records[wkb[u]].WKB]
      st0 == [parts |-> <<>>, last_parent_id |-> 0, last_parent_path |-> "",
              last_parent_name |-> "", db |-> EmptyMap, nextId |-> 1,
              existing |-> EmptyMap, objs |-> EmptyMap,
              single |-> <<>>, emitted |-> <<>>, terminal |-> FALSE]
  IN process_records_loop(st0, records, 1, incl, post, geoms).db

process_records_call ==
  /\ calc.fn = "process_records" /\ calc.at = "called"
  /\ calc' = [calc EXCEPT !.at = "returned",
                          !.table = process_records(calc.records, include_geometry, postprocess),
                          !.reordered = process_records([i \in DOMAIN calc.order |->
                                                           calc.records[calc.order[i]]],
                                                        include_geometry, postprocess)]
  /\ UNCHANGED <<pc, db>>
  /\ UNCHANGED importVars
  /\ UNCHANGED aggVars
  /\ UNCHANGED runVars
  /\ UNCHANGED startVars

InitOrder ==
  /\ pc = "INIT"
  /\ include_geometry \in BOOLEAN
  /\ postprocess = FALSE
  /\ geometries = EmptyMap
  /\ nrows = 0
  /\ row = NoRow
  /\ resolved = {}
  /\ built = EmptyMap
  /\ db = EmptyMap
  /\ nextId = 1
  /\ existing_divisions = EmptyMap
  /\ divisions = EmptyMap
  /\ single_children = <<>>
  /\ updates = <<>>
  /\ deletes = <<>>
  /\ workers = 0
  /\ levels = <<>>
  /\ level = 0
  /\ conn = EmptyMap
  /\ writers = EmptyMap
  /\ committed = {}
  /\ imported = EmptyMap
  /\ interrupts = 0
  /\ source = "ok"
  /\ triggers = "enabled"
  /\ \E n \in 2..MaxRecords :
       \E srcs \in [1..n -> OrderRows] :
         \E order \in {f \in [1..n -> 1..n] : \A i, j \in 1..n : f[i] = f[j] => i = j} :
           calc = [fn |-> "process_records", at |-> "called",
                   records |-> [i \in 1..n |->
                                  [k \in DOMAIN srcs[i] \cup {"UID"} |->
                                     IF k = "UID" THEN i ELSE srcs[i][k]]],
                   order |-> order, table |-> EmptyMap, reordered |-> EmptyMap]

NextOrder == process_records_call

SpecOrder == InitOrder /\ [][NextOrder]_vars

(***************************************************************************)
(* scripts/generate_extent_boxes.py.  A float of the model is an integer   *)
(* with FloatPrecision significant bits (binary64 has 53), and fl rounds    *)
(* the exact result of an addition to the nearest one, ties to even, as    *)
(* the float arithmetic of Python does.  Longitudes and latitudes of       *)
(* points are whole degrees; the centre of an ExtentBox counts 1/DEG of a  *)
(* degree.  Every point set and every box of the inputs is centred on the  *)
(* equator, where cos(latitude) = 1, and the inputs are chosen so that the *)
(* halvings and the division by max_aspect are exact.                      *)
(***************************************************************************)
FloatPrecision == 12

MaxLngs == 3

MaxBoxes == 2

KM_PER_DEG_LAT == 111

DEG == 111

Abs(x) == IF x < 0 THEN 0 - x ELSE x

Max(a, b) == IF a >= b THEN a ELSE b

MinOf(S) == CHOOSE x \in S : \A y \in S : x <= y

MaxOf(S) == CHOOSE x \in S : \A y \in S : y <= x

\* the elements of a list
Values(seq) == {seq[i] : i \in DOMAIN seq}

RECURSIVE Ulp(_)
\* the distance between neighbouring floats of magnitude a
Ulp(a) == IF a < 2^FloatPrecision THEN 1 ELSE 2 * Ulp(a \div 2)

\* the float nearest to x
fl(x) ==
  LET a == Abs(x)
      u == Ulp(a)
      q == a \div u
      r == a % u
      n == IF 2 * r > u \/ (2 * r = u /\ q % 2 = 1) THEN q + 1 ELSE q
  IN  IF x < 0 THEN 0 - (n * u) ELSE n * u

\* wrap_longitude, first loop: while lng > 180: lng -= 360
wrap_longitude_subtract ==
  /\ calc.fn = "wrap_longitude"
  /\ calc.at = "first_loop"
  /\ calc.lng > 180
  /\ calc' = [calc EXCEPT !.lng = fl(@ - 360)]
  /\ UNCHANGED <<pc, db>>
  /\ UNCHANGED importVars
  /\ UNCHANGED aggVars
  /\ UNCHANGED runVars
  /\ UNCHANGED startVars

\* wrap_longitude, second loop: while lng < -180: lng += 360
wrap_longitude_add ==
  /\ calc.fn = "wrap_longitude"
  /\ \/ calc.at = "first_loop" /\ ~(calc.lng > 180)
     \/ calc.at = "second_loop"
  /\ calc.lng < 0 - 180
  /\ calc' = [calc EXCEPT !.lng = fl(@ + 360), !.at = "second_loop"]
  /\ UNCHANGED <<pc, db>>
  /\ UNCHANGED importVars
  /\ UNCHANGED aggVars
  /\ UNCHANGED runVars
  /\ UNCHANGED startVars

\* wrap_longitude: return lng
wrap_longitude_return ==
  /\ calc.fn = "wrap_longitude"
  /\ \/ calc.at = "first_loop" /\ ~(calc.lng > 180)
     \/ calc.at = "second_loop"
  /\ ~(calc.lng < 0 - 180)
  /\ calc' = [calc EXCEPT !.at = "returned"]
  /\ UNCHANGED <<pc, db>>
  /\ UNCHANGED importVars
  /\ UNCHANGED aggVars
  /\ UNCHANGED runVars
  /\ UNCHANGED startVars

\* max(longitudes) - min(longitudes)
Span(longitudes) == MaxOf(Values(longitudes)) - MinOf(Values(longitudes))

\* [lng + 360 if lng < 0 else lng for lng in longitudes]
normalized_up(longitudes) ==
  [i \in DOMAIN longitudes |-> IF longitudes[i] < 0 THEN longitudes[i] + 360 ELSE longitudes[i]]

\* [lng - 360 if lng > 0 else lng for lng in longitudes]
normalized_down(longitudes) ==
  [i \in DOMAIN longitudes |-> IF longitudes[i] > 0 THEN longitudes[i] - 360 ELSE longitudes[i]]

find_optimal_longitude_shift_up_first(longitudes) ==
  IF Len(longitudes) < 2 THEN 0
  ELSE LET original_span == Span(longitudes)
           has_negative == \E i \in DOMAIN longitudes : longitudes[i] < 0 - 90
           has_positive == \E i \in DOMAIN longitudes : longitudes[i] > 90
           span_up == Span(normalized_up(longitudes))
           span_down == Span(normalized_down(longitudes))
       IN  IF original_span < 180 THEN 0
           ELSE IF ~(has_negative /\ has_positive) THEN 0
           ELSE IF span_up <= span_down THEN 360
           ELSE IF span_down < original_span THEN 0 - 360
           ELSE 0

find_optimal_longitude_shift(longitudes) ==
  IF Len(longitudes) < 2 THEN 0
  ELSE LET original_span == Span(longitudes)
           has_negative == \E i \in DOMAIN longitudes : longitudes[i] < 0 - 90
           has_positive == \E i \in DOMAIN longitudes : longitudes[i] > 90
           span_up == Span(normalized_up(longitudes))
           span_down == Span(normalized_down(longitudes))
       IN  IF original_span < 180 THEN 0
           ELSE IF ~(has_negative /\ has_positive) THEN 0
           ELSE IF span_up < original_span /\ span_up <= span_down THEN 360
           ELSE IF span_down < original_span THEN 0 - 360
           ELSE 0

\* the call find_optimal_longitude_shift(longitudes) and its return value
shift_call ==
  /\ calc.fn = "find_optimal_longitude_shift"
  /\ calc.at = "called"
  /\ calc' = [calc EXCEPT !.at = "returned",
                          !.result = find_optimal_longitude_shift(calc.longitudes)]
  /\ UNCHANGED <<pc, db>>
  /\ UNCHANGED importVars
  /\ UNCHANGED aggVars
  /\ UNCHANGED runVars
  /\ UNCHANGED startVars

\* KM_PER_DEG_LAT * cos(radians(lat)), at the equator
km_per_deg_lng(lat) == KM_PER_DEG_LAT

deg_to_km(lng_span, lat_span, center_lat) ==
  [width_km |-> lng_span * km_per_deg_lng(center_lat), height_km |-> lat_span * KM_PER_DEG_LAT]

\* spans in 1/DEG of a degree; the 0.001 floor of the divisor is below km_per_deg_lng
km_to_deg(width_km, height_km, center_lat) ==
  [lng_span |-> (width_km * DEG) \div km_per_deg_lng(center_lat),
   lat_span |-> (height_km * DEG) \div KM_PER_DEG_LAT]

compute_extent_box(points, params) ==
  IF Len(points) = 0
  THEN [center_lng |-> 0, center_lat |-> 0, width_km |-> params.min_w_km,
        height_km |-> params.min_h_km, lng_shift |-> 0]
  ELSE LET lngs == [i \in DOMAIN points |-> points[i][1]]
           lats == [i \in DOMAIN points |-> points[i][2]]
           lng_shift == find_optimal_longitude_shift(lngs)
           shifted_lngs == IF lng_shift = 360 THEN normalized_up(lngs)
                           ELSE IF lng_shift = 0 - 360 THEN normalized_down(lngs)
                           ELSE lngs
           min_lng == MinOf(Values(shifted_lngs))
           max_lng == MaxOf(Values(shifted_lngs))
           min_lat == MinOf(Values(lats))
           max_lat == MaxOf(Values(lats))
           center_lng == (min_lng + max_lng) \div 2
           center_lat == (min_lat + max_lat) \div 2
           km == deg_to_km(max_lng - min_lng, max_lat - min_lat, center_lat)
           width_km == Max(km.width_km + 2 * params.pad_km, params.min_w_km)
           height_km == Max(km.height_km + 2 * params.pad_km, params.min_h_km)
           \* aspect > max_aspect, with aspect = 1 when min(width_km, height_km) <= 0
           too_flat == /\ Min(width_km, height_km) > 0
                       /\ \/ width_km > params.max_aspect * height_km
                          \/ height_km > params.max_aspect * width_km
       IN  [center_lng |-> center_lng, center_lat |-> center_lat,
            width_km |-> IF too_flat /\ ~(width_km > height_km)
                         THEN height_km \div params.max_aspect ELSE width_km,
            height_km |-> IF too_flat /\ width_km > height_km
                          THEN width_km \div params.max_aspect ELSE height_km,
            lng_shift |-> lng_shift]

\* the call compute_extent_box(points, params) and its return value
extent_box_call ==
  /\ calc.fn = "compute_extent_box"
  /\ calc.at = "called"
  /\ calc' = [calc EXCEPT !.at = "returned",
                          !.result = compute_extent_box(calc.points, calc.params)]
  /\ UNCHANGED <<pc, db>>
  /\ UNCHANGED importVars
  /\ UNCHANGED aggVars
  /\ UNCHANGED runVars
  /\ UNCHANGED startVars

boxes_overlap(box1, box2) ==
  LET h1 == km_to_deg(box1.width_km \div 2, box1.height_km \div 2, box1.center_lat)
      h2 == km_to_deg(box2.width_km \div 2, box2.height_km \div 2, box2.center_lat)
      x_overlap == Abs(box1.center_lng - box2.center_lng) < h1.lng_span + h2.lng_span
      y_overlap == Abs(box1.center_lat - box2.center_lat) < h1.lat_span + h2.lat_span
  IN  x_overlap /\ y_overlap

compute_overlap_amount(box1, box2) ==
  LET h1 == km_to_deg(box1.width_km \div 2, box1.height_km \div 2, box1.center_lat)
      h2 == km_to_deg(box2.width_km \div 2, box2.height_km \div 2, box2.center_lat)
      center_lat == (box1.center_lat + box2.center_lat) \div 2
      x_gap == Abs(box1.center_lng - box2.center_lng) - (h1.lng_span + h2.lng_span)
      y_gap == Abs(box1.center_lat - box2.center_lat) - (h1.lat_span + h2.lat_span)
      x_overlap_km == (Max(0, 0 - x_gap) * km_per_deg_lng(center_lat)) \div DEG
      y_overlap_km == (Max(0, 0 - y_gap) * KM_PER_DEG_LAT) \div DEG
  IN  IF x_overlap_km > 0 /\ y_overlap_km > 0 THEN Min(x_overlap_km, y_overlap_km) ELSE 0

\* the move of box1 against box2 along the longitude in one iteration: minus
\* ux * push_deg, where dy = 0 between boxes on the equator, so that
\* dist = |dx| and ux is the sign of dx (1 for coincident centres)
Push(box1, box2, params) ==
  IF ~boxes_overlap(box1, box2) THEN 0
  ELSE LET overlap_km == compute_overlap_amount(box1, box2)
           dx == box2.center_lng - box1.center_lng
           ux == IF dx < 0 THEN 0 - 1 ELSE 1
           center_lat == (box1.center_lat + box2.center_lat) \div 2
           max_step_deg == (params.max_step_km * DEG) \div KM_PER_DEG_LAT
           overlap_deg == (overlap_km * DEG) \div km_per_deg_lng(center_lat)
           push_deg == Min(overlap_deg \div 2, max_step_deg)
       IN  IF overlap_km <= 0 THEN 0 ELSE 0 - (ux * push_deg)

RECURSIVE Moves(_, _, _, _)
\* moves[box.region_id] of the box at index k, accumulated over the pairs
\* (k, j) and (j, k) for the indexes j and above
Moves(boxes, k, j, params) ==
  IF j > Len(boxes) THEN 0
  ELSE (IF j > k THEN Push(boxes[k], boxes[j], params)
        ELSE IF j < k THEN 0 - Push(boxes[j], boxes[k], params)
        ELSE 0) + Moves(boxes, k, j + 1, params)

RECURSIVE SortByRegionId(_)
\* boxes.sort(key=lambda b: b.region_id)
SortByRegionId(boxes) ==
  IF Len(boxes) = 0 THEN <<>>
  ELSE LET first == CHOOSE i \in DOMAIN boxes :
                      \A j \in DOMAIN boxes : boxes[i].region_id <= boxes[j].region_id
       IN  <<boxes[first]>> \o SortByRegionId(SubSeq(boxes, 1, first - 1)
                                                \o SubSeq(boxes, first + 1, Len(boxes)))

overlaps_found(boxes) ==
  \E i, j \in DOMAIN boxes : i < j /\ boxes_overlap(boxes[i], boxes[j])

\* resolve_overlaps up to its loop: a list of fewer than two boxes is returned
\* as it is, any other is sorted by region_id
resolve_overlaps_enter ==
  /\ calc.fn = "resolve_overlaps"
  /\ calc.at = "called"
  /\ calc' = IF Len(calc.boxes) < 2
             THEN [calc EXCEPT !.at = "returned"]
             ELSE [calc EXCEPT !.at = "loop", !.boxes = SortByRegionId(@)]
  /\ UNCHANGED <<pc, db>>
  /\ UNCHANGED importVars
  /\ UNCHANGED aggVars
  /\ UNCHANGED runVars
  /\ UNCHANGED startVars

\* one iteration of the loop that found overlaps: the moves are applied
resolve_overlaps_iteration ==
  /\ calc.fn = "resolve_overlaps"
  /\ calc.at = "loop"
  /\ calc.iteration < calc.params.max_iter
  /\ overlaps_found(calc.boxes)
  /\ calc' = [calc EXCEPT
        !.iteration = @ + 1,
        !.boxes = [k \in DOMAIN calc.boxes |->
                     [calc.boxes[k] EXCEPT
                        !.center_lng = @ + Moves(calc.boxes, k, 1, calc.params)]]]
  /\ UNCHANGED <<pc, db>>
  /\ UNCHANGED importVars
  /\ UNCHANGED aggVars
  /\ UNCHANGED runVars
  /\ UNCHANGED startVars

\* the loop ends, by its break or after max_iter iterations: return boxes
resolve_overlaps_return ==
  /\ calc.fn = "resolve_overlaps"
  /\ calc.at = "loop"
  /\ calc.iteration = calc.params.max_iter \/ ~overlaps_found(calc.boxes)
  /\ calc' = [calc EXCEPT !.at = "returned"]
  /\ UNCHANGED <<pc, db>>
  /\ UNCHANGED importVars
  /\ UNCHANGED aggVars
  /\ UNCHANGED runVars
  /\ UNCHANGED startVars

\* the longitudes wrap_longitude is called with
WrapInputs ==
  {0 - 4194304, 0 - 540, 0 - 360, 0 - 270, 0 - 190, 0 - 180, 0 - 90, 0,
   90, 180, 190, 270, 360, 540, 720, 4194304}

Longitudes == {0 - 170, 0 - 100, 0 - 1, 0, 1, 100, 170}

RECURSIVE SeqsUpTo(_, _)
\* the lists of at most n elements of S
SeqsUpTo(S, n) ==
  IF n = 0 THEN {<<>>}
  ELSE LET shorter == SeqsUpTo(S, n - 1)
       IN  shorter \cup {Append(s, x) : s \in {t \in shorter : Len(t) = n - 1}, x \in S}

\* point sets whose bounding box is centred on the equator
PointSets ==
  {p \in SeqsUpTo({0 - 178, 0, 2, 10, 178} \X {0 - 1, 0, 1}, 2) :
     Len(p) > 0 => LET lats == {p[i][2] : i \in DOMAIN p}
                   IN  MinOf(lats) + MaxOf(lats) = 0}

ExtentParams ==
  [pad_km : {0, 30}, min_w_km : {0, 250}, min_h_km : {0, 250}, max_aspect : {1, 2}]

BoxLists ==
  {b \in SeqsUpTo([region_id : {1, 2}, center_lng : {0, 200}, center_lat : {0},
                   width_km : {444, 9000}, height_km : {444, 9000}], MaxBoxes) :
     \A i, j \in DOMAIN b : i # j => b[i].region_id # b[j].region_id}

OverlapParams == [max_iter : {1, 200}, max_step_km : {20}]

\* the result of compute_extent_box before it has returned
NoBox == [center_lng |-> 0, center_lat |-> 0, width_km |-> 0, height_km |-> 0, lng_shift |-> 0]

InitBox ==
  /\ pc = "INIT"
  /\ include_geometry = FALSE
  /\ postprocess = FALSE
  /\ geometries = EmptyMap
  /\ nrows = 0
  /\ row = NoRow
  /\ resolved = {}
  /\ built = EmptyMap
  /\ db = EmptyMap
  /\ nextId = 1
  /\ existing_divisions = EmptyMap
  /\ divisions = EmptyMap
  /\ single_children = <<>>
  /\ updates = <<>>
  /\ deletes = <<>>
  /\ workers = 0
  /\ levels = <<>>
  /\ level = 0
  /\ conn = EmptyMap
  /\ writers = EmptyMap
  /\ committed = {}
  /\ imported = EmptyMap
  /\ interrupts = 0
  /\ source = "ok"
  /\ triggers = "enabled"
  /\ \/ \E lng \in WrapInputs :
          calc = [fn |-> "wrap_longitude", at |-> "first_loop", arg |-> lng, lng |-> lng]
     \/ \E longitudes \in SeqsUpTo(Longitudes, MaxLngs) :
          calc = [fn |-> "find_optimal_longitude_shift", at |-> "called",
                  longitudes |-> longitudes, result |-> 0]
     \/ \E points \in PointSets, params \in ExtentParams :
          calc = [fn |-> "compute_extent_box", at |-> "called",
                  points |-> points, params |-> params, result |-> NoBox]
     \/ \E boxes \in BoxLists, params \in OverlapParams :
          calc = [fn |-> "resolve_overlaps", at |-> "called", input |-> boxes,
                  boxes |-> boxes, params |-> params, iteration |-> 0]

NextBox ==
  \/ wrap_longitude_subtract
  \/ wrap_longitude_add
  \/ wrap_longitude_return
  \/ shift_call
  \/ extent_box_call
  \/ resolve_overlaps_enter
  \/ resolve_overlaps_iteration
  \/ resolve_overlaps_return

SpecBox == InitBox /\ [][NextBox]_vars

\* the interpreter keeps running a function until it returns
SpecBoxFair == SpecBox /\ WF_vars(NextBox)

(***************************************************************************)
(* The split of one depth level over the workers, as the loop body of      *)
(* precalculate_all_geometries computes it, for levels longer than the     *)
(* rows of the import specifications can build.                            *)
(***************************************************************************)
MaxLevelSize == 10

MaxPool == 4

\* the (division_id, name) pairs of a level, in the order of the query
LevelLists ==
  UNION {{[i \in 1..n |-> i], [i \in 1..n |-> n + 1 - i]} : n \in 1..MaxLevelSize}

\* actual_workers and, on the parallel branch, the chunks handed to the pool
split_level ==
  /\ calc.fn = "precalculate_all_geometries"
  /\ calc.at = "called"
  /\ LET actual_workers == Min(calc.workers, Len(calc.divisions))
     IN calc' = [calc EXCEPT !.at = "returned",
                             !.actual_workers = actual_workers,
                             !.chunks = IF actual_workers = 1 THEN <<>>
                                        ELSE Chunks(calc.divisions, actual_workers)]
  /\ UNCHANGED <<pc, db>>
  /\ UNCHANGED importVars
  /\ UNCHANGED aggVars
  /\ UNCHANGED runVars
  /\ UNCHANGED startVars

InitSplit ==
  /\ pc = "INIT"
  /\ include_geometry = FALSE
  /\ postprocess = FALSE
  /\ geometries = EmptyMap
  /\ nrows = 0
  /\ row = NoRow
  /\ resolved = {}
  /\ built = EmptyMap
  /\ db = EmptyMap
  /\ nextId = 1
  /\ existing_divisions = EmptyMap
  /\ divisions = EmptyMap
  /\ single_children = <<>>
  /\ updates = <<>>
  /\ deletes = <<>>
  /\ workers = 0
  /\ levels = <<>>
  /\ level = 0
  /\ conn = EmptyMap
  /\ writers = EmptyMap
  /\ committed = {}
  /\ imported = EmptyMap
  /\ interrupts = 0
  /\ source = "ok"
  /\ triggers = "enabled"
  /\ \E divs \in LevelLists, w \in 1..MaxPool :
       calc = [fn |-> "precalculate_all_geometries", at |-> "called", divisions |-> divs,
               workers |-> w, actual_workers |-> 0, chunks |-> <<>>]

NextSplit == split_level

SpecSplit == InitSplit /\ [][NextSplit]_vars

(***************************************************************************)
(* Properties.                                                             *)
(***************************************************************************)
Kids(T, d) == {k \in DOMAIN T : T[k].parent_id = d}

\* b is the only child of a and repeats its name
Link(T, a, b) ==
  /\ a \in DOMAIN T /\ b \in DOMAIN T
  /\ Kids(T, a) = {b}
  /\ T[a].name = T[b].name

InChain(T, x) == \E y \in DOMAIN T : Link(T, x, y) \/ Link(T, y, x)

IsBottom(T, x) == (\E y \in DOMAIN T : Link(T, y, x)) /\ ~(\E y \in DOMAIN T : Link(T, x, y))

RECURSIVE ChainTop(_, _)
ChainTop(T, x) == IF Link(T, T[x].parent_id, x) THEN ChainTop(T, T[x].parent_id) ELSE x

RECURSIVE ChainLength(_, _)
ChainLength(T, x) == IF Link(T, T[x].parent_id, x) THEN 1 + ChainLength(T, T[x].parent_id) ELSE 1

RECURSIVE IsAncestor(_, _, _)
IsAncestor(T, a, x) ==
  /\ x \in DOMAIN T
  /\ T[x].parent_id # 0
  /\ (T[x].parent_id = a \/ IsAncestor(T, a, T[x].parent_id))

\* C1: while the tree is built, two rows with the same sequence of emitted names
\* down to a level are resolved to the same division id at that level, and one
\* division has been inserted per distinct path key.
C1_PathKeyDeterminism ==
  pc = "BUILD_TREE" =>
    /\ \A x, y \in resolved : x[1] = y[1] => x[2] = y[2]
    /\ nextId - 1 = Cardinality({PathKey(x[1]) : x \in resolved})
    /\ Cardinality(DOMAIN db) = Cardinality({PathKey(x[1]) : x \in resolved})

\* a second row has reused a division of an earlier row and created one below it
C1_Witness ==
  /\ pc = "BUILD_TREE"
  /\ nrows >= 2
  /\ \E i, j \in 1..Len(row.emitted) : ~row.emitted[i].created /\ row.emitted[j].created

C3_TerminalUpdate ==
  (pc = "BUILD_TREE" /\ row.terminal) =>
    /\ \A i \in 1..Len(row.emitted) : row.emitted[i].level # "NAME_0"
    /\ row.last_parent_id \in DOMAIN db
    /\ ~db[row.last_parent_id].has_children
    /\ db[row.last_parent_id].gadm_uid = row.record.UID
    /\ (row.record.UID \in DOMAIN geometries =>
          db[row.last_parent_id].geom
            = GeomFromWKB(row.record.UID, geometries[row.record.UID]))

\* C4: after tree construction and after the collapse pass, has_children is
\* true exactly for the divisions that some division has as parent_id.
C4_HasChildrenIffReferenced ==
  (pc = "COLLAPSE" \/ (pc = "COLLAPSED" /\ postprocess)) =>
    \A d \in DOMAIN db : db[d].has_children <=> Kids(db, d) # {}

RECURSIVE WalkDepth(_, _)
WalkDepth(T, d) ==
  IF T[d].parent_id = 0 THEN 0
  ELSE IF T[d].parent_id \notin DOMAIN T THEN -1
  ELSE 1 + WalkDepth(T, T[d].parent_id)

Elems(seq) == {seq[i] : i \in 1..Len(seq)}

\* the divisions in the depth groups
Scheduled == UNION {Elems(levels[j].divisions) : j \in 1..Len(levels)}

Aggregating == pc \in {"AGGREGATE", "DONE", "FAILED"}

C6_LevelBarrier ==
  (pc = "AGGREGATE" /\ level >= 1) =>
    \A j \in 1..(level - 1) : Elems(levels[j].divisions) \subseteq committed

\* the level after a level of two workers is being merged
C6_Witness ==
  /\ pc = "AGGREGATE"
  /\ level = 2
  /\ workers >= 2
  /\ Len(levels[1].divisions) >= 2
  /\ \E d \in Elems(levels[2].divisions) : writers[d] # {}

\* C7: the depth groups hold exactly the divisions with has_children = true
\* and null geometry, each in the group of its depth (root = 0), and the
\* groups are processed in strictly decreasing depth.
C7_DepthGroups ==
  /\ [](pc = "AGGREGATE" /\ level = 0 =>
          /\ Scheduled = {d \in DOMAIN db : db[d].has_children /\ db[d].geom = NullGeom}
          /\ \A j \in 1..Len(levels) :
               /\ Cardinality(Elems(levels[j].divisions)) = Len(levels[j].divisions)
               /\ \A d \in Elems(levels[j].divisions) : levels[j].depth = WalkDepth(db, d)
               /\ \A k \in 1..Len(levels) : j < k => levels[j].depth > levels[k].depth)
  /\ [][level' # level =>
          /\ level' = level + 1
          /\ level >= 1 => levels[level'].depth < levels[level].depth]_vars

\* the second of two groups is being processed
C7_Witness ==
  /\ pc = "AGGREGATE"
  /\ level = 2
  /\ levels[1].depth = 1 /\ levels[2].depth = 0
  /\ \E d \in DOMAIN db : d \notin Scheduled

\* C8: no two divisions of one depth group are ancestor and descendant, and
\* no connection of a level reads a row that another connection of the level
\* writes.
C8_GroupIndependence ==
  Aggregating =>
    /\ \A j \in 1..Len(levels) :
         \A a, b \in Elems(levels[j].divisions) : ~IsAncestor(db, a, b)
    /\ \A c1, c2 \in DOMAIN conn :
         c1 # c2 =>
           (Elems(conn[c1].chunk) \cup UNION {Kids(db, d) : d \in Elems(conn[c1].chunk)})
             \cap Elems(conn[c2].chunk) = {}

\* two workers process a level while another level is scheduled
C8_Witness ==
  /\ pc = "AGGREGATE"
  /\ Len(levels) >= 2
  /\ level >= 1
  /\ Cardinality(DOMAIN conn) = 2
  /\ \E c \in DOMAIN conn : conn[c].status = "merged"

\* C9: each division's geometry is written by one connection only: the chunks
\* of a level are pairwise disjoint and no division is in two levels.
C9_SingleWriter ==
  Aggregating =>
    /\ \A d \in DOMAIN writers : Cardinality(writers[d]) <= 1
    /\ \A c1, c2 \in DOMAIN conn :
         c1 # c2 => Elems(conn[c1].chunk) \cap Elems(conn[c2].chunk) = {}
    /\ \A c \in DOMAIN conn : Cardinality(Elems(conn[c].chunk)) = Len(conn[c].chunk)
    /\ \A j, k \in 1..Len(levels) :
         j # k => Elems(levels[j].divisions) \cap Elems(levels[k].divisions) = {}
    /\ \A j \in 1..Len(levels) :
         Cardinality(Elems(levels[j].divisions)) = Len(levels[j].divisions)

\* two workers of one level have each written a division
C9_Witness ==
  /\ pc = "AGGREGATE"
  /\ \E d1, d2 \in DOMAIN writers :
       /\ d1 # d2
       /\ \E c1, c2 \in 1..MaxWorkers :
            c1 # c2 /\ writers[d1] = {<<level, c1>>} /\ writers[d2] = {<<level, c2>>}

\* C10: invoking the aggregator on a division with has_children = false
\* leaves that division's geometry unchanged.
C10_LeafGeometryKept ==
  [][(pc = "IMPORTED" /\ pc' = "IMPORTED") =>
       \A c \in DOMAIN conn' :
         \A d \in Elems(conn'[c].chunk) : ~db[d].has_children => db'[d].geom = db[d].geom]_vars

\* the divisions that got their geometry from the aggregator
Aggregated == {d \in DOMAIN db : imported[d].geom = NullGeom /\ db[d].geom # NullGeom}

\* C11: when the aggregation was stopped at any point, any number of times up
\* to the bound, and then ran to its end, the table is the one an unstopped run
\* produces from the imported table; and at every moment the committed geometry
\* of a division the aggregator has written is the complete merge of its
\* children, never a part of it.
C11_ResumeEquivalence ==
  /\ pc = "DONE" =>
       /\ ~RunToCompletion(imported).failed
       /\ db = RunToCompletion(imported).table
  /\ pc \in {"IMPORTED", "AGGREGATE", "INTERRUPTED", "DONE", "FAILED"} =>
       \A d \in Aggregated :
         /\ ~MergeOutcome(db, d).raised
         /\ db[d].geom = MergeOutcome(db, d).geom

\* a run was stopped after it had committed some divisions, and the next run
\* aggregated the remaining ones, among them a division two levels deep
C11_Witness ==
  /\ pc = "DONE"
  /\ interrupts >= 1
  /\ \E d \in Aggregated : d \notin Scheduled
  /\ \E d \in Aggregated : d \in Scheduled /\ Cardinality(db[d].geom.pts) >= 2

\* the step is a merge of the next division of its chunk by connection c
MergeBegins(c) ==
  /\ c \in DOMAIN conn /\ c \in DOMAIN conn'
  /\ level' = level
  /\ conn[c].status = "running"
  /\ IF c = 0
     THEN conn'[c].pos = conn[c].pos + 1 \/ conn'[c].status = "failed"
     ELSE conn'[c].status \in {"merged", "failed"}

\* C12: on every connection, the main connection of a sequential level and the
\* connection of every worker, the merge of a division begins only when the
\* writes of all earlier divisions of that connection's chunk are committed.
C12_CommitPerDivision ==
  [][\A c \in 0..MaxWorkers :
       MergeBegins(c) =>
         \A i \in 1..(conn[c].pos - 1) :
           writers[conn[c].chunk[i]] # {} => conn[c].chunk[i] \in committed]_vars

\* C13 as stated: when the merge of a division has failed on both paths, every
\* other division of its depth level, those later in the same chunk included,
\* is aggregated and committed by the time the level is left.
C13_SiblingIsolation ==
  pc = "FAILED" =>
    \A d \in Elems(levels[level].divisions) :
      d \in committed \/ MergeOutcome(db, d).raised

\* C14: once a merge has raised on a connection, that connection aggregates
\* no further division of its chunk, no further depth level is started, and
\* the run does not end as completed.
C14_FailureStopsRun ==
  [][((\E c \in DOMAIN conn : conn[c].status = "failed") /\ pc' # "IMPORTED") =>
       /\ level' = level
       /\ pc' # "DONE"
       /\ \A c \in DOMAIN conn :
            conn[c].status = "failed" =>
              /\ c \in DOMAIN conn'
              /\ conn'[c].pos = conn[c].pos
              /\ conn'[c].status \in {"failed", "cancelled"}
              /\ \A i \in conn[c].pos..Len(conn[c].chunk) :
                   /\ writers'[conn[c].chunk[i]] = writers[conn[c].chunk[i]]
                   /\ conn[c].chunk[i] \in committed' <=> conn[c].chunk[i] \in committed]_vars

\* a worker has failed on the first division of a chunk of two, the other
\* worker has finished, and a shallower level was still to come
C14_Witness ==
  /\ pc = "FAILED"
  /\ level < Len(levels)
  /\ \E c \in DOMAIN conn :
       /\ c # 0
       /\ conn[c].status = "failed"
       /\ conn[c].pos < Len(conn[c].chunk)
       /\ conn[c].chunk[conn[c].pos + 1] \notin committed
  /\ \E c \in DOMAIN conn : conn[c].status = "done"

C16_GeometrySetOnce ==
  /\ [][\A d \in DOMAIN db \cap DOMAIN db' :
          db[d].geom # NullGeom => db'[d].geom = db[d].geom]_vars
  /\ [](pc = "DONE" => \A d \in DOMAIN db : db[d].geom # NullGeom)

\* C17: while the tree is built, a division a row has created has as parent_id
\* NULL when it is the row's first emitted level, and otherwise the division
\* created or reused for the row's preceding emitted level; every parent_id in
\* the table is the id of a division that was inserted earlier.
C17_ParentBeforeChild ==
  pc = "BUILD_TREE" =>
    /\ \A i \in 1..Len(row.emitted) :
         row.emitted[i].created =>
           db[row.emitted[i].id].parent_id = IF i = 1 THEN 0 ELSE row.emitted[i - 1].id
    /\ \A d \in DOMAIN db :
         db[d].parent_id # 0 => (db[d].parent_id \in DOMAIN db /\ db[d].parent_id < d)

\* a row has reused its first level and created the two levels below it
C17_Witness ==
  /\ pc = "BUILD_TREE"
  /\ Len(row.emitted) = 3
  /\ ~row.emitted[1].created
  /\ row.emitted[2].created
  /\ row.emitted[3].created
  /\ db[row.emitted[3].id].parent_id = row.emitted[2].id

\* C18: after a row without the terminal signal is processed, whatever rows
\* came before it, the division of its last emitted level has has_children =
\* false, the row's UID and, when one is loaded, the row's geometry, and the
\* divisions of its earlier emitted levels have has_children = true and no UID.
C18_LeafAndInnerFlags ==
  (pc = "BUILD_TREE" /\ ~row.terminal /\ Len(row.emitted) >= 1) =>
    LET n == Len(row.emitted)
        leaf == db[row.emitted[n].id]
        uid == row.record.UID
    IN /\ ~leaf.has_children
       /\ leaf.gadm_uid = uid
       /\ uid \in DOMAIN geometries => leaf.geom = GeomFromWKB(uid, geometries[uid])
       /\ \A i \in 1..(n - 1) :
            /\ db[row.emitted[i].id].has_children
            /\ db[row.emitted[i].id].gadm_uid = 0

\* C19: the rows have pairwise distinct UIDs; while the tree is built and
\* after the collapse pass no two divisions carry the same non-null gadm_uid.
C19_UniqueExternalId ==
  pc \in {"BUILD_TREE", "COLLAPSE", "APPLY_UPDATES", "APPLY_DELETES", "COLLAPSED", "IMPORTED"} =>
    \A d1, d2 \in DOMAIN db :
      (d1 # d2 /\ db[d1].gadm_uid # 0) => db[d1].gadm_uid # db[d2].gadm_uid

\* three rows have left their UIDs on three divisions and the collapse pass
\* has deleted a division
C19_Witness ==
  /\ pc = "COLLAPSED"
  /\ postprocess
  /\ Cardinality({db[d].gadm_uid : d \in DOMAIN db} \ {0}) = 3
  /\ Cardinality(DOMAIN db) < nextId - 1

\* C20: after tree construction and after the collapse pass every parent_id
\* is NULL or the id of a division in the table, and every division is reached
\* from a root by parent links, so that the parent relation is a forest.
C20_AcyclicForest ==
  pc \in {"COLLAPSE", "COLLAPSED", "IMPORTED"} =>
    /\ \A d \in DOMAIN db : db[d].parent_id = 0 \/ db[d].parent_id \in DOMAIN db
    /\ DOMAIN DepthOf(db) = DOMAIN db
    /\ \A d \in DOMAIN db : ~IsAncestor(db, d, d)

\* the collapse pass has deleted a division and a division two levels below
\* a root is left
C20_Witness ==
  /\ pc = "COLLAPSED"
  /\ postprocess
  /\ Cardinality(DOMAIN db) < nextId - 1
  /\ \E d \in DOMAIN db : DepthOf(db)[d] = 2

\* C21: when the GeoPackage lacks its data table or a required column, the
\* import has aborted without any write: no row is in the table and the
\* triggers are as they were.
C21_AbortBeforeWrites ==
  (pc = "ABORTED" /\ source # "ok") => (db = EmptyMap /\ triggers = "enabled")

\* C22: once resolve_overlaps has returned, boxes_overlap is false for every
\* pair of the returned boxes.
C22_NoOverlapAfterResolve ==
  (calc.fn = "resolve_overlaps" /\ calc.at = "returned") =>
    \A i, j \in DOMAIN calc.boxes :
      i < j => ~boxes_overlap(calc.boxes[i], calc.boxes[j])

\* C23: for a non-empty point set and max_aspect >= 1, compute_extent_box
\* returns a box at least min_w_km wide and min_h_km high whose sides are
\* within the ratio max_aspect of each other.
C23_MinSizeAndAspect ==
  (/\ calc.fn = "compute_extent_box"
   /\ calc.at = "returned"
   /\ Len(calc.points) > 0
   /\ calc.params.max_aspect >= 1) =>
    /\ calc.result.width_km >= calc.params.min_w_km
    /\ calc.result.height_km >= calc.params.min_h_km
    /\ calc.result.width_km <= calc.params.max_aspect * calc.result.height_km
    /\ calc.result.height_km <= calc.params.max_aspect * calc.result.width_km

\* C24: every call of wrap_longitude returns, and it returns a longitude in
\* [-180, 180] that differs from the argument by a multiple of 360 and is the
\* argument itself when that is in [-180, 180] already.
C24_WrapLongitude ==
  /\ (calc.fn = "wrap_longitude") ~> (calc.fn = "wrap_longitude" /\ calc.at = "returned")
  /\ []((calc.fn = "wrap_longitude" /\ calc.at = "returned") =>
          /\ calc.lng >= 0 - 180 /\ calc.lng <= 180
          /\ (calc.arg - calc.lng) % 360 = 0
          /\ (calc.arg >= 0 - 180 /\ calc.arg <= 180) => calc.lng = calc.arg)

\* the longitudes below zero moved up by 360
NegativesUp(l) == {IF l[i] < 0 THEN l[i] + 360 ELSE l[i] : i \in DOMAIN l}

\* the longitudes above zero moved down by 360
PositivesDown(l) == {IF l[i] > 0 THEN l[i] - 360 ELSE l[i] : i \in DOMAIN l}

Width(S) == MaxOf(S) - MinOf(S)

\* C25: find_optimal_longitude_shift returns 0 for fewer than two longitudes
\* and for a span below 180; otherwise 0, 360 or -360, and 360 (-360) only
\* when moving the negatives up (the positives down) by 360 makes the span
\* strictly smaller.
C25_ShiftOnlyWhenSmaller ==
  (calc.fn = "find_optimal_longitude_shift" /\ calc.at = "returned") =>
    LET l == calc.longitudes
        s == calc.result
    IN  /\ s \in {0, 360, 0 - 360}
        /\ Len(l) < 2 => s = 0
        /\ (Len(l) >= 2 /\ Width(Values(l)) < 180) => s = 0
        /\ s = 360 => Width(NegativesUp(l)) < Width(Values(l))
        /\ s = 0 - 360 => Width(PositivesDown(l)) < Width(Values(l))

\* a shift down is returned for longitudes on both sides of the date line
C25_Witness ==
  /\ calc.fn = "find_optimal_longitude_shift"
  /\ calc.at = "returned"
  /\ calc.result = 0 - 360
  /\ Width(Values(calc.longitudes)) >= 180

\* C26: in every merge of a division the robust union runs exactly when the
\* fast union raised, and then right after the rollback to the savepoint;
\* the merge fails on its connection exactly when the robust union raised
\* too, and a robust union that succeeds is what the connection has written.
C26_RobustOnlyAfterFastRaised ==
  [][\A c \in 0..MaxWorkers :
       MergeBegins(c) =>
         LET d == conn[c].chunk[conn[c].pos]
             view == View(db, conn[c].tx)
             kids == ChildGeoms(view, d)
             fast_raises == \E g \in kids : g.q # "ok"
             robust_raises == \E g \in kids : g.q = "broken"
             out == IF c = 0 THEN calculate_merged_geometry(view, d) ELSE merge_step(view, d)
             ran == out.statements
         IN  /\ (\E i \in DOMAIN ran : ran[i] = "ST_Union") <=> fast_raises
             /\ \A i \in DOMAIN ran :
                  ran[i] = "ST_Union" => (i > 1 /\ ran[i - 1] = "ROLLBACK TO SAVEPOINT")
             /\ conn'[c].status = "failed" <=> (fast_raises /\ robust_raises)
             /\ (fast_raises /\ ~robust_raises) =>
                  /\ d \in DOMAIN conn'[c].tx
                  /\ conn'[c].tx[d] = [pts |-> UNION {g.pts : g \in kids}, q |-> "ok"]]_vars

\* a division has been aggregated on the main connection although one of its
\* children has a geometry the fast union rejects
C26_Witness ==
  \E d \in DOMAIN db \cap DOMAIN writers :
       /\ \E w \in writers[d] : w[2] = 0
       /\ d \in committed
       /\ db[d].geom # NullGeom
       /\ \E k \in DOMAIN db : db[k].parent_id = d /\ db[k].geom.q = "malformed"

\* C27: the merge of a division none of whose children has a geometry writes
\* nothing, leaves the geometry of the division null, raises no error and lets
\* its connection go on with the rest of its chunk.
C27_NoChildGeometryNoOp ==
  [][\A c \in 0..MaxWorkers :
       MergeBegins(c) =>
         LET d == conn[c].chunk[conn[c].pos]
             view == View(db, conn[c].tx)
         IN  ChildGeoms(view, d) = {} =>
               /\ conn'[c].tx = conn[c].tx
               /\ writers' = writers
               /\ db' = db
               /\ View(db', conn'[c].tx)[d].geom = NullGeom
               /\ conn'[c].status # "failed"
               /\ pc' = pc
               /\ IF c = 0
                  THEN conn'[c].status = "running" /\ conn'[c].pos = conn[c].pos + 1
                  ELSE conn'[c].status = "merged"]_vars

\* a run has ended as completed over two or more divisions, none of which
\* had a child with a geometry: all are still null
C27_Witness ==
  /\ pc = "DONE"
  /\ Cardinality(committed) >= 2
  /\ \A d \in committed : db[d].geom = NullGeom /\ Kids(db, d) # {}
  /\ \A d \in DOMAIN db : db[d].geom = NullGeom

\* the sub-country level that has precedence for the record
Selected(record) == IF record["SOVEREIGN"] # "" THEN "SOVEREIGN" ELSE "GOVERNEDBY"

\* the level is one for which the record gets a division
Materialized(record, lvl) ==
  /\ record[lvl] # ""
  /\ lvl \in {"SOVEREIGN", "GOVERNEDBY"} =>
       (lvl = Selected(record) /\ record[lvl] # record["COUNTRY"])
  /\ lvl = "NAME_0" => record[lvl] # record["COUNTRY"]

\* C28: the has_children flag a division is inserted with for a level of a
\* record is true exactly when a later level that is materialized for the
\* record is non-empty.
C28_HasChildrenCountsMaterialized ==
  (pc = "BUILD_TREE" /\ nrows > 0) =>
    \A i \in 1..Len(row.emitted) :
      row.emitted[i].created =>
        (row.emitted[i].has_children <=>
           \E j \in (LevelIndex(row.emitted[i].level) + 1)..Len(GEO_LEVELS) :
             Materialized(row.record, GEO_LEVELS[j]))

\* C29: the levels for which process_row creates or reuses a division are, in
\* order, the non-empty levels of GEO_LEVELS without the sub-country level that
\* has no precedence, without the selected one when it repeats COUNTRY, and
\* without NAME_0 when it repeats COUNTRY; at most one is a sub-country level.
C29_EmittedLevels ==
  (pc = "BUILD_TREE" /\ nrows > 0) =>
    LET Emits(lvl) == Materialized(row.record, lvl)
    IN  /\ [i \in 1..Len(row.emitted) |-> row.emitted[i].level] = SelectSeq(GEO_LEVELS, Emits)
        /\ Cardinality({i \in 1..Len(row.emitted) :
                          row.emitted[i].level \in {"SOVEREIGN", "GOVERNEDBY"}}) <= 1

\* a record with both sub-country levels filled got a division for SOVEREIGN
C29_Witness ==
  /\ pc = "BUILD_TREE"
  /\ nrows > 0
  /\ row.record["SOVEREIGN"] # ""
  /\ row.record["GOVERNEDBY"] # ""
  /\ \E i \in 1..Len(row.emitted) : row.emitted[i].level = "SOVEREIGN"

\* the Division objects created under parent p
CreatedUnder(p) == {k \in DOMAIN divisions : divisions[k].parent_id = p}

\* C30: with post-processing on, after every record a division is in
\* single_children exactly when it is the only division created under its
\* parent so far; the single_child of a division is its only child then, and
\* empty when no or more than one child was created under it.
C30_SingleChildren ==
  (pc = "BUILD_TREE" /\ postprocess) =>
    /\ \A d \in DOMAIN divisions :
         (\E i \in 1..Len(single_children) : single_children[i] = d) <=>
           (divisions[d].parent_id # 0 /\ CreatedUnder(divisions[d].parent_id) = {d})
    /\ \A i, j \in 1..Len(single_children) :
         single_children[i] = single_children[j] => i = j
    /\ \A p \in DOMAIN divisions :
         /\ divisions[p].children_num = Cardinality(CreatedUnder(p))
         /\ divisions[p].single_child =
              (IF Cardinality(CreatedUnder(p)) = 1
               THEN CHOOSE d \in CreatedUnder(p) : TRUE ELSE 0)

\* a second child was created under a division whose first child had been
\* registered, and another only child is still in the list
C30_Witness ==
  /\ pc = "BUILD_TREE"
  /\ postprocess
  /\ \E p \in DOMAIN divisions : divisions[p].children_num = 2
  /\ single_children # <<>>

RECURSIVE Concat(_)
\* the lists of a list, joined in order
Concat(lists) ==
  IF Len(lists) = 0 THEN <<>> ELSE lists[1] \o Concat(SubSeq(lists, 2, Len(lists)))

\* C31: a level of L divisions with W workers and N = min(W, L) >= 2 is split
\* into exactly N non-empty chunks, none longer than ceil(L / N), that joined
\* in order are the level list.
C31_ExactlyNChunks ==
  (/\ calc.fn = "precalculate_all_geometries"
   /\ calc.at = "returned"
   /\ Min(calc.workers, Len(calc.divisions)) >= 2) =>
    LET L == Len(calc.divisions)
        N == Min(calc.workers, L)
    IN  /\ Len(calc.chunks) = N
        /\ \A k \in 1..Len(calc.chunks) :
             /\ Len(calc.chunks[k]) >= 1
             /\ Len(calc.chunks[k]) <= (L + N - 1) \div N
        /\ Concat(calc.chunks) = calc.divisions

RECURSIVE Perms(_)
\* the lists that hold every element of S once
Perms(S) ==
  IF S = {} THEN {<<>>} ELSE UNION {{<<x>> \o q : q \in Perms(S \ {x})} : x \in S}

RECURSIVE Reparented(_, _)
\* the table after the UPDATEs of the list, in order
Reparented(T, upd) ==
  IF upd = <<>> THEN T
  ELSE Reparented([d \in DOMAIN T |->
                     IF d = Head(upd)[2] THEN [T[d] EXCEPT !.parent_id = Head(upd)[1]] ELSE T[d]],
                  Tail(upd))

\* the table after the collapse pass over the candidates in the order of list
Collapsed(list) ==
  LET ms == MergeLoop([existing |-> existing_divisions, objs |-> divisions,
                       updates |-> <<>>, deletes |-> <<>>], list, 1)
      gone == {ms.deletes[i][1] : i \in 1..Len(ms.deletes)}
      T == Reparented(db, ms.updates)
  IN  [d \in DOMAIN T \ gone |-> T[d]]

\* x is in the list before y
Before(list, x, y) ==
  \E i, j \in 1..Len(list) : i < j /\ list[i] = x /\ list[j] = y

\* C32: the collapse pass gives the same divisions with the same parent links
\* for every order of the candidates that keeps the order of the candidates
\* of one chain.
C32_ChainOrderIndependent ==
  (pc = "COLLAPSE" /\ postprocess) =>
    \A q \in Perms(Elems(single_children)) :
      (\A x, y \in Elems(single_children) :
         (ChainTop(db, x) = ChainTop(db, y) /\ Before(single_children, x, y))
           => Before(q, x, y))
        => Collapsed(q) = Collapsed(single_children)

\* two candidates of different chains are both about to be merged
C32_Witness ==
  /\ pc = "COLLAPSE" /\ postprocess
  /\ \E x, y \in Elems(single_children) :
       /\ Link(db, db[x].parent_id, x)
       /\ Link(db, db[y].parent_id, y)
       /\ ChainTop(db, x) # ChainTop(db, y)

\* C33: when a DELETE of the collapse pass is executed, every UPDATE has been
\* executed and no stored division has the deleted division as its parent.
C33_UpdatesBeforeDeletes ==
  pc = "APPLY_DELETES" =>
    /\ updates = <<>>
    /\ \A d \in DOMAIN db : db[d].parent_id # Head(deletes)[1]

\* one DELETE has been executed and another one is about to be
C33_Witness ==
  /\ pc = "APPLY_DELETES"
  /\ \E i \in 1..(nextId - 1) : i \notin DOMAIN db

\* C39: a division is resolved for one sequence of emitted names only: two
\* rows whose name sequences down to a level differ get different divisions
\* at that level.
C39_PathKeyInjective ==
  \A x, y \in resolved : x[2] = y[2] => x[1] = y[1]

\* C36: after the collapse pass no stored division is the only child of a
\* division with the same name.
C36_NoSameNameOnlyChild ==
  (pc = "COLLAPSED" /\ postprocess) =>
    \A p, d \in DOMAIN db : ~Link(db, p, d)

\* a point count above which a merged geometry would count as large; the
\* aggregator itself has no such number
SimplifyThreshold == 1

\* C34: the geometry the aggregator has stored for a division is the full
\* union of the children's geometries when that union has at most
\* SimplifyThreshold points, and a geometry other than the union when it has
\* more.
C34_SimplifiedAboveThreshold ==
  pc \in {"IMPORTED", "AGGREGATE", "INTERRUPTED", "DONE", "FAILED"} =>
    \A d \in Aggregated :
      LET full == MergeOutcome(db, d).geom
      IN IF Cardinality(full.pts) > SimplifyThreshold
         THEN db[d].geom # full
         ELSE db[d].geom = full

\* C35: when SIGINT arrives during a level, the operation in flight on every
\* connection that is still at work, the main one and every worker's, is
\* cancelled.
C35_InterruptCancelsAll ==
  [][(pc = "AGGREGATE" /\ pc' = "INTERRUPTED") =>
       \A c \in DOMAIN conn :
         conn[c].status \in {"running", "merged"} =>
           (c \in DOMAIN conn' /\ conn'[c].status = "cancelled")]_vars

\* C37: an aggregation run in which no merge raises comes to its end with
\* every level done, and then every division with has_children = true and a
\* child that has a geometry has a geometry itself.
C37_AggregationCompletes ==
  /\ (pc = "AGGREGATE") ~> (pc = "DONE" \/ \E c \in DOMAIN conn : conn[c].status = "failed")
  /\ [](pc = "DONE" =>
          /\ level = Len(levels)
          /\ Scheduled \subseteq committed
          /\ \A d \in DOMAIN db :
               (db[d].has_children /\ ChildGeoms(db, d) # {}) => db[d].geom # NullGeom)

\* a run of two levels has ended and has given three divisions their geometry
C37_Witness ==
  /\ pc = "DONE"
  /\ Len(levels) = 2
  /\ Cardinality({d \in DOMAIN db : db[d].has_children /\ imported[d].geom = NullGeom
                                      /\ db[d].geom # NullGeom}) = 3

\* C40: once process_records has disabled the geometry triggers and has
\* ended, by returning or by an error raised while the records are read, the
\* triggers are enabled.
C40_TriggersRestored ==
  (/\ include_geometry
   /\ \/ pc \in {"COLLAPSE", "APPLY_UPDATES", "APPLY_DELETES", "COLLAPSED", "IMPORTED"}
      \/ (pc = "ABORTED" /\ source = "no_column")) =>
    triggers = "enabled"

RECURSIVE NamePath(_, _)
\* the names from the root down to division d
NamePath(T, d) ==
  IF T[d].parent_id = 0 \/ T[d].parent_id \notin DOMAIN T THEN <<T[d].name>>
  ELSE Append(NamePath(T, T[d].parent_id), T[d].name)

\* the tree without its ids: every division by its names from the root, with
\* its flag and its external id
Shape(T) ==
  {[path |-> NamePath(T, d), has_children |-> T[d].has_children, gadm_uid |-> T[d].gadm_uid] :
     d \in DOMAIN T}

\* C38: the records processed in another order give the same tree up to the
\* ids: as many divisions, with the same names under the same parents, the same
\* has_children flags and the same external ids.
C38_OrderIndependent ==
  (calc.fn = "process_records" /\ calc.at = "returned") =>
    /\ Cardinality(DOMAIN calc.table) = Cardinality(DOMAIN calc.reordered)
    /\ Shape(calc.table) = Shape(calc.reordered)

====
